---- MODULE Spec2Model ----
(***************************************************************************)
(* A model of the blueband-db vector database canister: the collection     *)
(* registry, the document/chunk store, the vector store with its           *)
(* per-collection vector-id index, the asynchronous ingest handlers that   *)
(* suspend at the embedding call, and the bounded LRU vector cache.        *)
(*                                                                         *)
(* Identifiers.  generate_id(prefix, content) hashes content and the       *)
(* current time; it is modelled as the triple <<prefix, content, time>>,   *)
(* so two ids are equal exactly when prefix, content and time tick are     *)
(* equal (the 64-bit truncation of SHA-256 is taken to be injective).      *)
(* The composite document key "{c}::{d}" is the pair <<c, d>>.             *)
(*                                                                         *)
(* Time.  ic_cdk::api::time() is constant during one message execution and *)
(* is shared by the messages of one round; it is the variable now, moved   *)
(* by Tick.  The reply of an outcall arrives in a later round than the     *)
(* call, so a suspended handler resumes only at a later tick.              *)
(*                                                                         *)
(* Scale.  The cache limits (100 MiB, 1000 entries) and its time to live   *)
(* (24 h) are scaled down to max_memory, max_entries and CACHE_TTL ticks;  *)
(* steps counts the state-changing calls of a behaviour of Spec, which     *)
(* MaxSteps cuts off.  scenario follows the calls of the cache scenario    *)
(* S5 and is used by CacheSpec only; invalidated holds the collections     *)
(* whose cache entry was invalidated, each noted as pending until it is    *)
(* read again, and is used by ReadSpec only; calls holds the              *)
(* administrative calls made so far and is used by ManageSpec only.        *)
(***************************************************************************)
EXTENDS Integers, Sequences, FiniteSets, TLC

\* ---------------------------------------------------------------- bounds
MaxTime == 1
MaxInflight == 2
MaxSteps == 9
MaxIndexLen == 2
CacheStart == 3
CacheMaxTime == 5
max_memory == 320
max_entries == 2

\* ------------------------------------------------------- input universes
CollOrder == <<"c1", "c2", "c3">>
Colls == {"c1", "c2"}
Principals == {"p1", "p2"}
Creators == {"p1"}
Titles == {"t1"}
Contents == {<<"a", "a", "a">>}
ProxyUrls == {"https://proxy", "http://proxy"}
Times == 0..MaxTime

\* ------------------------------------------------------ program constants
BATCH_SIZE == 3
CACHE_TTL == 2
SizeOfVector == 72
SizeOfF32 == 4
IdStringLen == 20
ChunkIdStringLen == 7
ModelNameLen == 22

VARIABLES collections, documents, document_chunks, document_index,
          vectors, vector_index, cache, now, inflight, steps, scenario,
          invalidated, calls

vars == <<collections, documents, document_chunks, document_index,
          vectors, vector_index, cache, now, inflight, steps, scenario,
          invalidated, calls>>

storeVars == <<collections, documents, document_chunks, document_index,
               vectors, vector_index>>

\* ------------------------------------------------------------ map helpers
MapPut(f, k, v) == [x \in (DOMAIN f) \cup {k} |-> IF x = k THEN v ELSE f[x]]

MapDel(f, k) == [x \in (DOMAIN f) \ {k} |-> f[x]]

EmptyMap == [x \in {} |-> x]

\* Vec::contains
Contains(s, x) == \E i \in 1..Len(s) : s[i] = x

\* Vec::retain(|id| id != x)
RetainNot(s, x) == SelectSeq(s, LAMBDA y : y # x)

\* StableBTreeMap::get(..).unwrap_or_default() on a StringList
GetOrDefault(index, c) == IF c \in DOMAIN index THEN index[c] ELSE <<>>

Min(a, b) == IF a <= b THEN a ELSE b

\* ------------------------------------------------------------ identifiers
generate_id(prefix, content, t) == <<prefix, content, t>>

ChunkId(position) == <<"chunk", position>>

storage_key(c, d) == <<c, d>>

DocIds == {generate_id("doc", ti, t) : ti \in Titles, t \in Times}

\* The six stable maps as one value, so that a handler's calls compose.
Store == [collections |-> collections, documents |-> documents,
          document_chunks |-> document_chunks, document_index |-> document_index,
          vectors |-> vectors, vector_index |-> vector_index]

Ok(S) == [ok |-> TRUE, store |-> S]

Err(S) == [ok |-> FALSE, store |-> S]

\* ------------------------------------------------ storage/collections.rs
collection_exists(S, c) == c \in DOMAIN S.collections

\* StableBTreeMap iterates in key order.
list_collections(S) == SelectSeq(CollOrder, LAMBDA c : c \in DOMAIN S.collections)

get_admin_level(S, c, caller) ==
    IF c \in DOMAIN S.collections
    THEN IF S.collections[c].genesis_admin = caller THEN "Genesis"
         ELSE IF Contains(S.collections[c].admins, caller) THEN "Regular"
         ELSE "None"
    ELSE "None"

is_collection_admin(S, c, caller) ==
    /\ c \in DOMAIN S.collections
    /\ \/ S.collections[c].genesis_admin = caller
       \/ Contains(S.collections[c].admins, caller)

require_genesis_admin(S, c, caller) == get_admin_level(S, c, caller) = "Genesis"

\* The empty id and the reserved words stand for the ids that
\* validate_collection_id refuses.
InvalidIds == {"", "admin", "system"}

validate_collection_id(c) == c \notin InvalidIds

\* A create that writes whether or not the id is taken.
create_collection_overwriting(S, c, creator, settings) ==
    IF ~validate_collection_id(c)
    THEN Err(S)
    ELSE Ok([S EXCEPT
            !.collections = MapPut(S.collections, c,
                [id |-> c, genesis_admin |-> creator, admins |-> <<creator>>,
                 settings |-> settings]),
            !.vector_index = MapPut(S.vector_index, c, <<>>),
            !.document_index = MapPut(S.document_index, c, <<>>)])

create_collection(S, c, creator, settings) ==
    IF ~validate_collection_id(c)
    THEN Err(S)
    ELSE IF c \in DOMAIN S.collections
    THEN Err(S)
    ELSE Ok([S EXCEPT
            !.collections = MapPut(S.collections, c,
                [id |-> c, genesis_admin |-> creator, admins |-> <<creator>>,
                 settings |-> settings]),
            !.vector_index = MapPut(S.vector_index, c, <<>>),
            !.document_index = MapPut(S.document_index, c, <<>>)])

delete_collection(S, c, caller) ==
    IF ~require_genesis_admin(S, c, caller)
    THEN Err(S)
    ELSE Ok([S EXCEPT
            !.collections = MapDel(S.collections, c),
            !.vector_index = MapDel(S.vector_index, c),
            !.document_index = MapDel(S.document_index, c)])

require_admin_access(S, c, caller) ==
    get_admin_level(S, c, caller) \in {"Genesis", "Regular"}

update_collection_settings(S, c, settings, caller) ==
    IF ~require_admin_access(S, c, caller) THEN Err(S)
    ELSE IF c \notin DOMAIN S.collections THEN Err(S)
    ELSE Ok([S EXCEPT !.collections[c].settings = settings])

\* A panic inside an update call traps: the call is rejected and the state
\* is the one the call started in.
Trap(S) == [ok |-> FALSE, store |-> S, trapped |-> TRUE]

Trapped(r) == "trapped" \in DOMAIN r

\* The three functions below read the collection with
\*     if let Some(mut collection) = c.borrow().get(..) { .. }
\* and the Ref that c.borrow() returns lives to the end of the if let.  The
\* error returns come first; the write, c.borrow_mut().insert(..), is
\* reached with the shared borrow still held and panics (BorrowMutError).

\* An add that pushes the principal whoever it is, and writes.
add_collection_admin_unchecked(S, c, new_admin, caller) ==
    IF c \notin DOMAIN S.collections THEN Err(S)
    ELSE IF S.collections[c].genesis_admin # caller THEN Err(S)
    ELSE Ok([S EXCEPT !.collections[c].admins = Append(@, new_admin)])

add_collection_admin(S, c, new_admin, caller) ==
    IF c \notin DOMAIN S.collections THEN Err(S)
    ELSE IF S.collections[c].genesis_admin # caller THEN Err(S)
    ELSE IF Contains(S.collections[c].admins, new_admin) THEN Err(S)
    ELSE Trap(S)

remove_collection_admin(S, c, admin_to_remove, caller) ==
    IF c \notin DOMAIN S.collections THEN Err(S)
    ELSE IF S.collections[c].genesis_admin # caller THEN Err(S)
    ELSE IF admin_to_remove = S.collections[c].genesis_admin THEN Err(S)
    ELSE IF ~Contains(S.collections[c].admins, admin_to_remove) THEN Err(S)
    ELSE Trap(S)

transfer_genesis_admin(S, c, new_genesis_admin, caller) ==
    IF c \notin DOMAIN S.collections THEN Err(S)
    ELSE IF S.collections[c].genesis_admin # caller THEN Err(S)
    ELSE IF ~Contains(S.collections[c].admins, new_genesis_admin) THEN Err(S)
    ELSE Trap(S)


\* -------------------------------------------------- storage/documents.rs
document_exists(S, c, d) == storage_key(c, d) \in DOMAIN S.documents

\* Visible only through the collection's document index.
has_document(S, c, d) ==
    /\ c \in DOMAIN S.document_index
    /\ Contains(S.document_index[c], d)
    /\ storage_key(c, d) \in DOMAIN S.documents

get_document_chunks(S, d) ==
    IF d \in DOMAIN S.document_chunks THEN S.document_chunks[d] ELSE <<>>

get_document(S, c, d) ==
    IF c \in DOMAIN S.document_index /\ Contains(S.document_index[c], d)
          /\ storage_key(c, d) \in DOMAIN S.documents
    THEN <<S.documents[storage_key(c, d)]>>
    ELSE <<>>

\* filter_map over the index: one entry for each indexed id that has metadata.
list_documents(S, c) ==
    LET ids == SelectSeq(GetOrDefault(S.document_index, c),
                         LAMBDA d : get_document(S, c, d) # <<>>)
    IN [i \in 1..Len(ids) |-> get_document(S, c, ids[i])[1]]

\* A count that never sees a document.
count_collection_documents_none(S, c) == 0

count_collection_documents(S, c) == Len(GetOrDefault(S.document_index, c))

IsBlank(text) == \A i \in 1..Len(text) : text[i] = " "

\* The sliding-window loop; fuel bounds the number of iterations explored.
RECURSIVE ChunkLoop(_, _, _, _, _, _, _, _)
ChunkLoop(content, d, chunk_size, overlap, start, position, acc, fuel) ==
    IF start >= Len(content) THEN [chunks |-> acc, finished |-> TRUE]
    ELSE IF fuel = 0 THEN [chunks |-> acc, finished |-> FALSE]
    ELSE LET end == Min(start + chunk_size, Len(content))
             text == SubSeq(content, start + 1, end)
             keep == ~IsBlank(text)
             acc2 == IF keep
                     THEN Append(acc, [id |-> ChunkId(position), document_id |-> d,
                                       text |-> text, position |-> position,
                                       char_start |-> start, char_end |-> end])
                     ELSE acc
             pos2 == IF keep THEN position + 1 ELSE position
         IN IF end >= Len(content) THEN [chunks |-> acc2, finished |-> TRUE]
            ELSE ChunkLoop(content, d, chunk_size, overlap,
                           end - Min(overlap, end), pos2, acc2, fuel - 1)

create_semantic_chunks(content, d, settings) ==
    ChunkLoop(content, d, settings.chunk_size, settings.chunk_overlap,
              0, 0, <<>>, 2 * Len(content) + 2).chunks

\* Whether the while loop comes to an end.  What a round does depends on
\* start alone, and start stays below Len(content): a loop that is still
\* running after Len(content) + 1 rounds has been at one start twice and
\* runs for ever.
ChunkLoopFinishes(content, settings) ==
    ChunkLoop(content, "", settings.chunk_size, settings.chunk_overlap,
              0, 0, <<>>, Len(content) + 1).finished

add_to_document_index(S, c, d) ==
    [S EXCEPT !.document_index =
        MapPut(S.document_index, c, Append(GetOrDefault(S.document_index, c), d))]

\* request = [collection_id, title, content]; t is the time of the call.
add_document(S, request, t) ==
    LET c == request.collection_id
        d == generate_id("doc", request.title, t)
    IN IF request.content = <<>> THEN [ok |-> FALSE, store |-> S, id |-> d]
       ELSE IF c \notin DOMAIN S.collections THEN [ok |-> FALSE, store |-> S, id |-> d]
       ELSE IF /\ S.collections[c].settings.max_documents # <<>>
               /\ count_collection_documents(S, c)
                      >= S.collections[c].settings.max_documents[1]
            THEN [ok |-> FALSE, store |-> S, id |-> d]
       \* A loop without end runs into the instruction limit: the call traps.
       ELSE IF ~ChunkLoopFinishes(request.content, S.collections[c].settings)
            THEN [ok |-> FALSE, store |-> S, id |-> d, trapped |-> TRUE]
       ELSE LET chunks == create_semantic_chunks(request.content, d,
                                                 S.collections[c].settings)
                document == [id |-> d, collection_id |-> c, title |-> request.title,
                             timestamp |-> t, total_chunks |-> Len(chunks),
                             size |-> Len(request.content), is_embedded |-> FALSE]
                S1 == [S EXCEPT
                        !.documents = MapPut(S.documents, storage_key(c, d), document),
                        !.document_chunks = MapPut(S.document_chunks, d, chunks)]
            IN [ok |-> TRUE, store |-> add_to_document_index(S1, c, d), id |-> d]

\* The chunk list goes first, also when the collection has no index entry.
delete_document(S, c, d) ==
    LET S1 == [S EXCEPT !.document_chunks = MapDel(S.document_chunks, d)]
    IN IF c \in DOMAIN S1.document_index
       THEN Ok([S1 EXCEPT !.document_index =
                  MapPut(S1.document_index, c, RetainNot(S1.document_index[c], d))])
       ELSE Err(S1)

mark_document_embedded(S, c, d) ==
    IF storage_key(c, d) \in DOMAIN S.documents
    THEN Ok([S EXCEPT !.documents[storage_key(c, d)].is_embedded = TRUE])
    ELSE Err(S)

\* documents.remove(&doc_id) is called with the bare document id, not with
\* the composite key under which add_document stored the metadata.
RECURSIVE RemoveKeys(_, _)
RemoveKeys(f, keys) ==
    IF keys = <<>> THEN f ELSE RemoveKeys(MapDel(f, Head(keys)), Tail(keys))

delete_collection_documents(S, c) ==
    LET doc_ids == GetOrDefault(S.document_index, c)
    IN Ok([S EXCEPT
            !.documents = RemoveKeys(S.documents, doc_ids),
            !.document_chunks = RemoveKeys(S.document_chunks, doc_ids),
            !.document_index = MapDel(S.document_index, c)])


\* ---------------------------------------------------- storage/vectors.rs
\* The first collection, in key order, whose documents map holds c::d;
\* <<>> when there is none (the Err case).
extract_collection_id_from_document_id(S, d) ==
    LET hits == SelectSeq(list_collections(S), LAMBDA c : document_exists(S, c, d))
    IN IF hits = <<>> THEN <<>> ELSE <<hits[1]>>

\* f32 values are integers here: those up to F32Max in size are the finite
\* ones, and PosInf, NegInf and NaN stand for the three others.  NaN is
\* never compared but through IsFinite and `<= 0`, which is false for it.
F32Max == 99

PosInf == F32Max + 1

NegInf == 0 - PosInf

NaN == F32Max + 2

IsFinite(x) == x >= 0 - F32Max /\ x <= F32Max

\* A check that looks at the embedding only.
ValidVector_embedding_only(v) == v.embedding # <<>>

ValidVector(v) == v.embedding # <<>> /\ ~(v.norm <= 0 \/ ~IsFinite(v.norm))

\* The loop body of the batch insert: upsert, and push the id only if new.
RECURSIVE StoreGroup(_, _, _)
StoreGroup(vmap, ids, group) ==
    IF group = <<>> THEN [vectors |-> vmap, ids |-> ids]
    ELSE LET v == Head(group)
             vector_exists == v.id \in DOMAIN vmap
         IN StoreGroup(MapPut(vmap, v.id, v),
                       IF vector_exists THEN ids ELSE Append(ids, v.id),
                       Tail(group))

\* One collection's group after the other, in the order given.
RECURSIVE StoreGroups(_, _, _)
StoreGroups(S, vs, order) ==
    IF order = <<>> THEN Ok(S)
    ELSE LET c == Head(order)
             group == SelectSeq(vs, LAMBDA v :
                          extract_collection_id_from_document_id(S, v.document_id) = <<c>>)
         IN IF group = <<>> THEN StoreGroups(S, vs, Tail(order))
            ELSE IF ~collection_exists(S, c) THEN Err(S)
            ELSE LET r == StoreGroup(S.vectors, GetOrDefault(S.vector_index, c), group)
                     S1 == [S EXCEPT !.vectors = r.vectors,
                                     !.vector_index = MapPut(S.vector_index, c, r.ids)]
                 IN StoreGroups(S1, vs, Tail(order))

\* A batch insert that takes the elements one at a time and stops at the
\* first one it cannot store.
RECURSIVE store_vectors_batch_one_by_one(_, _)
store_vectors_batch_one_by_one(S, vs) ==
    IF vs = <<>> THEN Ok(S)
    ELSE LET v == Head(vs)
             cid == extract_collection_id_from_document_id(S, v.document_id)
         IN IF ~ValidVector(v) \/ cid = <<>> THEN Err(S)
            ELSE LET r == StoreGroup(S.vectors, GetOrDefault(S.vector_index, cid[1]), <<v>>)
                 IN store_vectors_batch_one_by_one(
                        [S EXCEPT !.vectors = r.vectors,
                                  !.vector_index = MapPut(S.vector_index, cid[1], r.ids)],
                        Tail(vs))

store_vectors_batch(S, vs) ==
    IF vs = <<>> THEN Ok(S)
    ELSE IF \E i \in 1..Len(vs) : ~ValidVector(vs[i]) THEN Err(S)
    ELSE IF \E i \in 1..Len(vs) :
               extract_collection_id_from_document_id(S, vs[i].document_id) = <<>>
         THEN Err(S)
    ELSE StoreGroups(S, vs, CollOrder)

store_vector(S, v) ==
    LET cid == extract_collection_id_from_document_id(S, v.document_id)
    IN IF ~ValidVector(v) THEN Err(S)
       ELSE IF cid = <<>> THEN Err(S)
       ELSE IF ~collection_exists(S, cid[1]) THEN Err(S)
       ELSE IF ~document_exists(S, cid[1], v.document_id) THEN Err(S)
       ELSE LET r == StoreGroup(S.vectors, GetOrDefault(S.vector_index, cid[1]), <<v>>)
            IN Ok([S EXCEPT !.vectors = r.vectors,
                            !.vector_index =
                                IF v.id \in DOMAIN S.vectors THEN S.vector_index
                                ELSE MapPut(S.vector_index, cid[1], r.ids)])

delete_vector(S, vid) ==
    IF vid \notin DOMAIN S.vectors THEN Err(S)
    ELSE LET cid == extract_collection_id_from_document_id(S, S.vectors[vid].document_id)
         IN IF cid = <<>> THEN Err(S)
            ELSE Ok([S EXCEPT
                    !.vectors = MapDel(S.vectors, vid),
                    !.vector_index =
                        IF cid[1] \in DOMAIN S.vector_index
                        THEN MapPut(S.vector_index, cid[1],
                                    RetainNot(S.vector_index[cid[1]], vid))
                        ELSE S.vector_index])

\* The ids of the vectors whose document_id is d.
document_vector_ids(S, d) == {vid \in DOMAIN S.vectors : S.vectors[vid].document_id = d}

delete_document_vectors(S, d) ==
    LET ids == document_vector_ids(S, d)
        cid == extract_collection_id_from_document_id(S, d)
    IN IF ids = {} THEN Ok(S)
       ELSE IF cid = <<>> THEN Err(S)
       ELSE Ok([S EXCEPT
               !.vectors = [x \in (DOMAIN S.vectors) \ ids |-> S.vectors[x]],
               !.vector_index =
                   MapPut(S.vector_index, cid[1],
                          SelectSeq(GetOrDefault(S.vector_index, cid[1]),
                                    LAMBDA x : x \notin ids))])

cleanup_collection_index(S, c) == [S EXCEPT !.vector_index = MapDel(S.vector_index, c)]

\* filter_map over the index: ids without a vector are skipped.
get_collection_vectors(S, c) ==
    LET ids == SelectSeq(GetOrDefault(S.vector_index, c), LAMBDA x : x \in DOMAIN S.vectors)
    IN [i \in 1..Len(ids) |-> S.vectors[ids[i]]]

\* The issues validate_vectors reports: index entries without a vector.
validate_vectors(S) ==
    UNION {{<<c, S.vector_index[c][i]>> :
              i \in {j \in 1..Len(S.vector_index[c]) :
                        S.vector_index[c][j] \notin DOMAIN S.vectors}} :
           c \in DOMAIN S.vector_index}

\* ------------------------------------------------------ compute/cache.rs
RECURSIVE SumSizes(_)
SumSizes(vs) ==
    IF vs = <<>> THEN 0
    ELSE SizeOfVector + Len(Head(vs).embedding) * SizeOfF32
         + IdStringLen + IdStringLen + ChunkIdStringLen + ModelNameLen
         + SumSizes(Tail(vs))

estimate_vectors_memory_size(vs) == SumSizes(vs)

BoundedCache_new(maxmem, maxent) ==
    [entries |-> EmptyMap, access_order |-> <<>>, total_memory |-> 0,
     max_memory |-> maxmem, max_entries |-> maxent]

saturating_sub(a, b) == IF a >= b THEN a - b ELSE 0

\* A faulty remove_entry that forgets the order list.
remove_entry_keeps_order(C, c) ==
    IF c \in DOMAIN C.entries
    THEN [C EXCEPT !.entries = MapDel(C.entries, c),
                   !.total_memory = saturating_sub(C.total_memory,
                                                   C.entries[c].memory_size)]
    ELSE C

remove_entry(C, c) ==
    IF c \in DOMAIN C.entries
    THEN [C EXCEPT !.entries = MapDel(C.entries, c),
                   !.total_memory = saturating_sub(C.total_memory,
                                                   C.entries[c].memory_size),
                   !.access_order = RetainNot(C.access_order, c)]
    ELSE C

\* A faulty update_lru_order that leaves the entry where it is.
update_lru_order_unmoved(C, c) == C

update_lru_order(C, c) ==
    IF Contains(C.access_order, c)
    THEN [C EXCEPT !.access_order = Append(RetainNot(C.access_order, c), c)]
    ELSE C

Expired(C, c, t) == t - C.entries[c].timestamp >= CACHE_TTL

RECURSIVE RemoveAll(_, _)
RemoveAll(C, ids) ==
    IF ids = {} THEN C
    ELSE LET c == CHOOSE x \in ids : TRUE
         IN RemoveAll(remove_entry(C, c), ids \ {c})

remove_expired_entries(C, t) ==
    RemoveAll(C, {c \in DOMAIN C.entries : Expired(C, c, t)})

RECURSIVE SumEntries(_, _)
SumEntries(entries, ids) ==
    IF ids = {} THEN 0
    ELSE LET c == CHOOSE x \in ids : TRUE
         IN entries[c].memory_size + SumEntries(entries, ids \ {c})

\* A faulty recalculate_memory that keeps the running counter.
recalculate_memory_skipped(C) == C

recalculate_memory(C) ==
    [C EXCEPT !.total_memory = SumEntries(C.entries, DOMAIN C.entries)]

\* The eviction loop: drop the head of access_order while over a limit.
RECURSIVE EvictLoop(_, _, _)
EvictLoop(C, needed_memory, needed_entries) ==
    IF /\ \/ C.total_memory + needed_memory > C.max_memory
          \/ Cardinality(DOMAIN C.entries) + needed_entries > C.max_entries
       /\ C.access_order # <<>>
    THEN EvictLoop([C EXCEPT !.access_order = Tail(C.access_order),
                             !.entries = MapDel(C.entries, Head(C.access_order))],
                   needed_memory, needed_entries)
    ELSE C

make_space_for(C, needed_memory, needed_entries, t) ==
    recalculate_memory(
        EvictLoop(remove_expired_entries(C, t), needed_memory, needed_entries))

cache_insert(C, c, vs, t) ==
    LET memory_size == estimate_vectors_memory_size(vs)
        C1 == IF c \in DOMAIN C.entries THEN remove_entry(C, c) ELSE C
        C2 == make_space_for(C1, memory_size, 1, t)
    IN [C2 EXCEPT !.entries = MapPut(C2.entries, c,
                                     [vectors |-> vs, timestamp |-> t,
                                      last_accessed |-> t,
                                      memory_size |-> memory_size]),
                  !.access_order = Append(C2.access_order, c),
                  !.total_memory = C2.total_memory + memory_size]

\* A faulty get that also renews the insertion time on a hit.
cache_get_renewing(C, c, t) ==
    IF c \in DOMAIN C.entries /\ t - C.entries[c].timestamp < CACHE_TTL
    THEN [cache |-> update_lru_order([C EXCEPT !.entries[c].last_accessed = t,
                                               !.entries[c].timestamp = t], c),
          hit |-> TRUE, vectors |-> C.entries[c].vectors]
    ELSE IF c \in DOMAIN C.entries
    THEN [cache |-> remove_entry(C, c), hit |-> FALSE, vectors |-> <<>>]
    ELSE [cache |-> C, hit |-> FALSE, vectors |-> <<>>]

\* BoundedCache::get: [cache, hit, vectors]
cache_get(C, c, t) ==
    IF c \in DOMAIN C.entries /\ t - C.entries[c].timestamp < CACHE_TTL
    THEN [cache |-> update_lru_order([C EXCEPT !.entries[c].last_accessed = t], c),
          hit |-> TRUE, vectors |-> C.entries[c].vectors]
    ELSE IF c \in DOMAIN C.entries
    THEN [cache |-> remove_entry(C, c), hit |-> FALSE, vectors |-> <<>>]
    ELSE [cache |-> C, hit |-> FALSE, vectors |-> <<>>]

cache_clear(C) == [C EXCEPT !.entries = EmptyMap, !.access_order = <<>>,
                            !.total_memory = 0]

\* [cache, vectors]: a hit, or the storage vectors, cached when non-empty.
get_cached_vectors(C, S, c, t) ==
    LET g == cache_get(C, c, t)
        vs == get_collection_vectors(S, c)
    IN IF g.hit THEN [cache |-> g.cache, vectors |-> g.vectors]
       ELSE IF vs # <<>> THEN [cache |-> cache_insert(g.cache, c, vs, t), vectors |-> vs]
       ELSE [cache |-> g.cache, vectors |-> vs]

\* A faulty invalidation that leaves the entry in place.
invalidate_collection_cache_kept(C, c) == C

invalidate_collection_cache(C, c) == remove_entry(C, c)


\* ------------------------------------------------ compute/embeddings.rs
StartsWithHttps(url) == url \in {"https://proxy"}

\* validate_embedding_request, as far as the modelled inputs can fail it.
validate_embedding_request(texts, proxy_url) ==
    /\ texts # <<>>
    /\ StartsWithHttps(proxy_url)
    /\ \A i \in 1..Len(texts) : ~IsBlank(texts[i])

RECURSIVE SumSquares(_)
SumSquares(e) == IF e = <<>> THEN 0 ELSE Head(e) * Head(e) + SumSquares(Tail(e))

validate_embedding(e) == e # <<>> /\ \A i \in 1..Len(e) : IsFinite(e[i])

\* sqrt of the sum of squares; the modelled embeddings have integer norms.
\* 0 is the Err case: an embedding that is not valid, a sum of squares
\* beyond F32Max, whose root is infinite, or a norm of 0.
calculate_norm(e) ==
    IF ~validate_embedding(e) THEN 0
    ELSE LET sq == SumSquares(e)
         IN IF sq > F32Max THEN 0
            ELSE CHOOSE n \in 0..sq : n * n <= sq /\ (n + 1) * (n + 1) > sq

\* The chunks of the batch that starts at index next.
BatchOf(chunks, next) == SubSeq(chunks, next, Min(next + BATCH_SIZE - 1, Len(chunks)))

\* What one reply of the embedding service yields for a batch: the Err case
\* is <<>>, the Ok case the batch's vectors, ids taken at time t.
\* A reply of <<>> stands for an HTTP error or a malformed body.
BatchVectors(batch, reply, model, t) ==
    IF reply = <<>> \/ ~validate_embedding(reply) \/ calculate_norm(reply) <= 0 THEN <<>>
    ELSE [i \in 1..Len(batch) |->
            [id |-> generate_id("vec", batch[i].id, t),
             document_id |-> batch[i].document_id,
             chunk_id |-> batch[i].id,
             embedding |-> reply,
             norm |-> calculate_norm(reply),
             model |-> model,
             created_at |-> t]]

ChunkTexts(batch) == [i \in 1..Len(batch) |-> batch[i].text]

\* ------------------------------------------------ compute/similarity.rs
\* Numbers.  The f32 entries of the embeddings are integers here and the
\* arithmetic is exact: the rounding of f32 is not modelled.  A score is
\* the record [num, densq], the number num / sqrt(densq) with densq > 0; a
\* centroid is [sum, count], the vector sum / count.  The norm of a query
\* or of a centroid need not be an integer, so the searches carry the
\* squares of the norms.  The cosine does not change when one of its
\* arguments is scaled by a positive factor, so the cosine with a centroid
\* sum / count is computed with sum.
ApproxThreshold == 3
ClusterDivisor == 2
MinClusters == 3
MaxClusters == 4
KMEANS_ITERATIONS == 10
CANDIDATE_FACTOR == 3

Max(a, b) == IF a >= b THEN a ELSE b

SignedSquare(n) == IF n >= 0 THEN n * n ELSE 0 - n * n

ScoreLess(x, y) == SignedSquare(x.num) * y.densq < SignedSquare(y.num) * x.densq

\* a.iter().zip(b.iter()).map(|(x, y)| x * y).sum()
RECURSIVE Dot(_, _)
Dot(a, b) ==
    IF a = <<>> \/ b = <<>> THEN 0 ELSE Head(a) * Head(b) + Dot(Tail(a), Tail(b))

\* <<>> is the Err case.  The norms are those handed in, as in the source,
\* squared; both are positive where the function is called.
cosine_similarity(a, b, norm_a_squared, norm_b_squared) ==
    IF Len(a) # Len(b) THEN <<>>
    ELSE IF norm_a_squared * norm_b_squared = 0 THEN <<>>
    ELSE <<[num |-> Dot(a, b), densq |-> norm_a_squared * norm_b_squared]>>

\* calculate_norm of a query, squared; 0 is the Err case (an empty
\* embedding or a norm that is not positive).
norm_squared(embedding) == SumSquares(embedding)

\* calculate_norm of a centroid followed by cosine_similarity with it.
centroid_similarity(query, query_norm_squared, centroid) ==
    IF norm_squared(centroid.sum) = 0 THEN <<>>
    ELSE cosine_similarity(query, centroid.sum, query_norm_squared,
                           norm_squared(centroid.sum))

\* The square of euclidean_distance(v, centroid), times count squared.
RECURSIVE DistanceSquared(_, _, _)
DistanceSquared(v, sum, count) ==
    IF v = <<>> \/ sum = <<>> THEN 0
    ELSE (count * Head(v) - Head(sum)) * (count * Head(v) - Head(sum))
         + DistanceSquared(Tail(v), Tail(sum), count)

\* euclidean_distance(v, c1) < euclidean_distance(v, c2)
Closer(v, c1, c2) ==
    DistanceSquared(v, c1.sum, c1.count) * c2.count * c2.count
        < DistanceSquared(v, c2.sum, c2.count) * c1.count * c1.count

\* The closest centroid, the first one among equals (indices from 1).
RECURSIVE ClosestCentroid(_, _, _, _)
ClosestCentroid(v, centroids, i, best) ==
    IF i > Len(centroids) THEN best
    ELSE ClosestCentroid(v, centroids, i + 1,
             IF Closer(v, centroids[i], centroids[best]) THEN i ELSE best)

AssignToClosest(vecs, centroids) ==
    [i \in 1..Len(vecs) |-> ClosestCentroid(vecs[i].embedding, centroids, 2, 1)]

\* The distance of v to its closest centroid, squared.
RECURSIVE MinDistanceSquared(_, _)
MinDistanceSquared(v, centroids) ==
    LET d == DistanceSquared(v, Head(centroids).sum, 1)
    IN IF Len(centroids) = 1 THEN d
       ELSE Min(d, MinDistanceSquared(v, Tail(centroids)))

\* The vector farthest from the centroids chosen so far, the first one among
\* equals, and the first vector when every distance is zero.
RECURSIVE FarthestVector(_, _, _, _, _)
FarthestVector(vecs, centroids, i, best, max_min_distance) ==
    IF i > Len(vecs) THEN best
    ELSE LET d == MinDistanceSquared(vecs[i].embedding, centroids)
         IN IF d > max_min_distance
            THEN FarthestVector(vecs, centroids, i + 1, i, d)
            ELSE FarthestVector(vecs, centroids, i + 1, best, max_min_distance)

RECURSIVE kmeans_plus_plus_init(_, _, _)
kmeans_plus_plus_init(vecs, k, centroids) ==
    IF Len(centroids) >= k THEN centroids
    ELSE IF centroids = <<>>
    THEN kmeans_plus_plus_init(vecs, k, <<[sum |-> vecs[1].embedding, count |-> 1]>>)
    ELSE kmeans_plus_plus_init(vecs, k,
             Append(centroids,
                    [sum |-> vecs[FarthestVector(vecs, centroids, 1, 1, 0)].embedding,
                     count |-> 1]))

\* The sum of the d-th entries of the members of one cluster.
RECURSIVE SumOfCluster(_, _, _, _, _)
SumOfCluster(vecs, assignments, cluster, d, i) ==
    IF i > Len(vecs) THEN 0
    ELSE (IF assignments[i] = cluster /\ d <= Len(vecs[i].embedding)
          THEN vecs[i].embedding[d] ELSE 0)
         + SumOfCluster(vecs, assignments, cluster, d, i + 1)

MembersOf(assignments, cluster) == {i \in 1..Len(assignments) : assignments[i] = cluster}

\* Every centroid starts from zeros; the sums are divided where the count is
\* positive.  An embedding longer than dimensions indexes past the end of
\* the centroid, which panics.
update_centroids(vecs, assignments, k, dimensions) ==
    IF \E i \in 1..Len(vecs) : Len(vecs[i].embedding) > dimensions
    THEN [ok |-> FALSE, centroids |-> <<>>]
    ELSE [ok |-> TRUE,
          centroids |->
              [c \in 1..k |->
                  [sum |-> [d \in 1..dimensions |->
                               SumOfCluster(vecs, assignments, c, d, 1)],
                   count |-> Max(1, Cardinality(MembersOf(assignments, c)))]]]

RECURSIVE KMeansLoop(_, _, _, _, _, _)
KMeansLoop(vecs, k, dimensions, centroids, assignments, iteration) ==
    IF iteration >= KMEANS_ITERATIONS
    THEN [ok |-> TRUE, centroids |-> centroids, assignments |-> assignments]
    ELSE LET assigned == AssignToClosest(vecs, centroids)
             updated == update_centroids(vecs, assigned, k, dimensions)
         IN IF assigned = assignments
            THEN [ok |-> TRUE, centroids |-> centroids, assignments |-> assigned]
            ELSE IF ~updated.ok
            THEN [ok |-> FALSE, centroids |-> <<>>, assignments |-> <<>>]
            ELSE KMeansLoop(vecs, k, dimensions, updated.centroids, assigned,
                            iteration + 1)

simple_kmeans(vecs, k) ==
    IF vecs = <<>> \/ k = 0
    THEN [ok |-> TRUE, centroids |-> <<>>, assignments |-> <<>>]
    ELSE LET kk == Min(k, Len(vecs))
         IN KMeansLoop(vecs, kk, Len(vecs[1].embedding),
                       kmeans_plus_plus_init(vecs, kk, <<>>),
                       [i \in 1..Len(vecs) |-> 1], 0)

\* The positions of the members of one cluster, in increasing order.
ClusterMembers(assignments, cluster) ==
    SelectSeq([i \in 1..Len(assignments) |-> i], LAMBDA i : assignments[i] = cluster)

VectorIndex_build(vecs, target_clusters) ==
    IF vecs = <<>>
    THEN [ok |-> TRUE, centroids |-> <<>>, clusters |-> <<>>, vectors |-> vecs]
    ELSE LET actual_clusters == Min(target_clusters, Len(vecs))
             km == simple_kmeans(vecs, actual_clusters)
         IN IF ~km.ok
            THEN [ok |-> FALSE, centroids |-> <<>>, clusters |-> <<>>, vectors |-> vecs]
            ELSE [ok |-> TRUE, centroids |-> km.centroids,
                  clusters |-> [c \in 1..actual_clusters |->
                                   ClusterMembers(km.assignments, c)],
                  vectors |-> vecs]

\* sort_by(|a, b| b.0.partial_cmp(&a.0)): descending, equal scores keep
\* their order.
RECURSIVE InsertByScore(_, _)
InsertByScore(sorted, x) ==
    IF sorted = <<>> THEN <<x>>
    ELSE IF ScoreLess(Head(sorted).score, x.score) THEN <<x>> \o sorted
    ELSE <<Head(sorted)>> \o InsertByScore(Tail(sorted), x)

RECURSIVE SortByScore(_, _)
SortByScore(items, sorted) ==
    IF items = <<>> THEN sorted
    ELSE SortByScore(Tail(items), InsertByScore(sorted, Head(items)))

Truncate(s, n) == SubSeq(s, 1, Min(n, Len(s)))

\* A selection that takes the best cluster and no other.
SelectClusters_first_only(cluster_scores, clusters, candidate_count, selected, total_candidates) ==
    IF cluster_scores = <<>> THEN selected
    ELSE Append(selected, Head(cluster_scores).cluster_idx)

\* The loop that pushes clusters until they hold candidate_count vectors.
RECURSIVE SelectClusters(_, _, _, _, _)
SelectClusters(cluster_scores, clusters, candidate_count, selected, total_candidates) ==
    IF cluster_scores = <<>> THEN selected
    ELSE LET c == Head(cluster_scores).cluster_idx
             total == total_candidates + Len(clusters[c])
         IN IF total >= candidate_count THEN Append(selected, c)
            ELSE SelectClusters(Tail(cluster_scores), clusters, candidate_count,
                                Append(selected, c), total)

find_best_clusters(index, query, query_norm_squared, candidate_count) ==
    LET scored == SelectSeq([c \in 1..Len(index.centroids) |->
                                [score |-> centroid_similarity(query, query_norm_squared,
                                                               index.centroids[c]),
                                 cluster_idx |-> c]],
                            LAMBDA x : x.score # <<>>)
        cluster_scores == SortByScore([i \in 1..Len(scored) |->
                                          [score |-> scored[i].score[1],
                                           cluster_idx |-> scored[i].cluster_idx]], <<>>)
    IN SelectClusters(cluster_scores, index.clusters, candidate_count, <<>>, 0)

\* The vectors that the two searches score: those of the query's dimension
\* whose similarity is defined and not below min_score.
ScoreVectors(query, query_norm_squared, vecs, config) ==
    LET all == [i \in 1..Len(vecs) |->
                   [score |-> cosine_similarity(query, vecs[i].embedding,
                                                query_norm_squared,
                                                vecs[i].norm * vecs[i].norm),
                    vector |-> vecs[i]]]
        kept == SelectSeq(all, LAMBDA x :
                    /\ x.score # <<>>
                    /\ config.min_score = <<>> \/ ~ScoreLess(x.score[1], config.min_score[1]))
    IN [i \in 1..Len(kept) |-> [score |-> kept[i].score[1], vector |-> kept[i].vector]]

RECURSIVE Flatten(_)
Flatten(ss) == IF ss = <<>> THEN <<>> ELSE Head(ss) \o Flatten(Tail(ss))

search_approximate(index, query, config) ==
    IF index.centroids = <<>> THEN [ok |-> TRUE, scored |-> <<>>]
    ELSE IF norm_squared(query) = 0 THEN [ok |-> FALSE, scored |-> <<>>]
    ELSE LET query_norm_squared == norm_squared(query)
             promising == find_best_clusters(index, query, query_norm_squared,
                                             config.max_results * CANDIDATE_FACTOR)
             members == Flatten([i \in 1..Len(promising) |-> index.clusters[promising[i]]])
             candidates == ScoreVectors(query, query_norm_squared,
                               [i \in 1..Len(members) |-> index.vectors[members[i]]], config)
         IN [ok |-> TRUE,
             scored |-> Truncate(SortByScore(candidates, <<>>), config.max_results)]

\* An exact search that hands back the scored vectors as it met them.
exact_similarity_search_unsorted(query, vecs, config) ==
    IF norm_squared(query) = 0 THEN [ok |-> FALSE, scored |-> <<>>]
    ELSE [ok |-> TRUE,
          scored |-> Truncate(ScoreVectors(query, norm_squared(query), vecs, config),
                              config.max_results)]

exact_similarity_search(query, vecs, config) ==
    IF norm_squared(query) = 0 THEN [ok |-> FALSE, scored |-> <<>>]
    ELSE [ok |-> TRUE,
          scored |-> Truncate(SortByScore(ScoreVectors(query, norm_squared(query),
                                                       vecs, config), <<>>),
                              config.max_results)]

target_clusters(n) == Min(Max(n \div ClusterDivisor, MinClusters), MaxClusters)

\* The branch shared by the two searches: the index for a large input when
\* the approximate search is asked for, the exact search otherwise.
ScoredVectors(query, vecs, config) ==
    IF config.use_approximate /\ Len(vecs) > ApproxThreshold
    THEN LET index == VectorIndex_build(vecs, target_clusters(Len(vecs)))
         IN IF index.ok THEN search_approximate(index, query, config)
            ELSE [ok |-> FALSE, scored |-> <<>>]
    ELSE exact_similarity_search(query, vecs, config)

Matches(scored) ==
    [i \in 1..Len(scored) |->
        [score |-> scored[i].score,
         document_id |-> scored[i].vector.document_id,
         chunk_id |-> scored[i].vector.chunk_id]]

\* [ok, matches, cache]: the search reads through the cache.
cosine_similarity_search(C, S, query, c, config, t) ==
    LET g == get_cached_vectors(C, S, c, t)
        r == ScoredVectors(query, g.vectors, config)
    IN IF query = <<>> THEN [ok |-> FALSE, matches |-> <<>>, cache |-> C]
       ELSE IF g.vectors = <<>> THEN [ok |-> TRUE, matches |-> <<>>, cache |-> g.cache]
       ELSE [ok |-> r.ok, matches |-> Matches(r.scored), cache |-> g.cache]

\* document_filter is <<>> (None) or <<docs>> with docs a set of ids.
similarity_search_filtered(C, S, query, c, document_filter, config, t) ==
    LET g == get_cached_vectors(C, S, c, t)
        owned == IF document_filter = <<>> THEN g.vectors
                 ELSE SelectSeq(g.vectors, LAMBDA v : v.document_id \in document_filter[1])
        r == ScoredVectors(query, owned, config)
    IN IF query = <<>> THEN [ok |-> FALSE, matches |-> <<>>, cache |-> C]
       ELSE IF g.vectors = <<>> THEN [ok |-> TRUE, matches |-> <<>>, cache |-> g.cache]
       ELSE [ok |-> r.ok, matches |-> Matches(r.scored), cache |-> g.cache]

\* VECTORS.iter() goes in key order, the order of the hashed ids; any fixed
\* order serves, since the centroid does not depend on it.
RECURSIVE SetToSeq(_)
SetToSeq(s) ==
    IF s = {} THEN <<>>
    ELSE LET x == CHOOSE y \in s : TRUE IN <<x>> \o SetToSeq(s \ {x})

get_document_vectors(S, d) ==
    LET ids == SetToSeq(document_vector_ids(S, d))
    IN [i \in 1..Len(ids) |-> S.vectors[ids[i]]]

RECURSIVE SumOfEntries(_, _)
SumOfEntries(vecs, d) ==
    IF vecs = <<>> THEN 0 ELSE Head(vecs).embedding[d] + SumOfEntries(Tail(vecs), d)

\* <<>> is the Err case; otherwise the centroid [sum, count] of the vectors.
calculate_document_centroid(vecs) ==
    IF vecs = <<>> THEN <<>>
    ELSE IF \E i \in 1..Len(vecs) :
               Len(vecs[i].embedding) # Len(vecs[1].embedding)
    THEN <<>>
    ELSE IF vecs[1].embedding = <<>> THEN <<>>
    ELSE <<[sum |-> [d \in 1..Len(vecs[1].embedding) |-> SumOfEntries(vecs, d)],
            count |-> Len(vecs)]>>

\* A search for similar documents that keeps the matches of the source.
find_similar_documents_keeping_source(C, S, source, c, config, t) ==
    LET centroid == calculate_document_centroid(get_document_vectors(S, source))
    IN IF centroid = <<>> THEN [ok |-> FALSE, matches |-> <<>>, cache |-> C]
       ELSE cosine_similarity_search(C, S, centroid[1].sum, c, config, t)

find_similar_documents(C, S, source, c, config, t) ==
    LET centroid == calculate_document_centroid(get_document_vectors(S, source))
        r == cosine_similarity_search(C, S, centroid[1].sum, c, config, t)
    IN IF centroid = <<>> THEN [ok |-> FALSE, matches |-> <<>>, cache |-> C]
       ELSE IF ~r.ok THEN r
       ELSE [ok |-> TRUE,
             matches |-> SelectSeq(r.matches, LAMBDA m : m.document_id # source),
             cache |-> r.cache]


\* ----------------------------------------------------------------- lib.rs
Commit(S) ==
    /\ collections' = S.collections
    /\ documents' = S.documents
    /\ document_chunks' = S.document_chunks
    /\ document_index' = S.document_index
    /\ vectors' = S.vectors
    /\ vector_index' = S.vector_index

RemoveAt(s, i) == SubSeq(s, 1, i - 1) \o SubSeq(s, i + 1, Len(s))

\* A handler parked at the await of the embedding call.
Suspended(op, c, d, chunks, settings, proxy_url, next, acc, t) ==
    [op |-> op, c |-> c, d |-> d, chunks |-> chunks, settings |-> settings,
     proxy_url |-> proxy_url, next |-> next, acc |-> acc, sent |-> t]

\* What a handler leaves behind: its result, the maps, the cache, and the
\* handler itself (<<h>>) when it suspends again instead of returning.
Outcome(ok, S, C, waiting) == [ok |-> ok, store |-> S, cache |-> C, waiting |-> waiting]

\* The end of add_document_and_embed once all vectors are there.
FinishAddAndEmbed(S, C, c, d, vs) ==
    LET r == store_vectors_batch(S, vs)
        m == mark_document_embedded(r.store, c, d)
    IN IF ~r.ok THEN Outcome(FALSE, delete_document(S, c, d).store, C, <<>>)
       ELSE IF ~m.ok THEN Outcome(FALSE, r.store, C, <<>>)
       ELSE Outcome(TRUE, m.store, invalidate_collection_cache(C, c), <<>>)

\* The failure arm of add_document_and_embed: the compensating delete.
FailAddAndEmbed(S, C, c, d) == Outcome(FALSE, delete_document(S, c, d).store, C, <<>>)

\* The end of embed_existing_document once all vectors are there.
FinishEmbedExisting(S, C, c, d, vs) ==
    LET r == store_vectors_batch(S, vs)
        m == mark_document_embedded(r.store, c, d)
    IN IF ~r.ok THEN Outcome(FALSE, S, C, <<>>)
       ELSE IF ~m.ok THEN Outcome(FALSE, r.store, C, <<>>)
       ELSE Outcome(TRUE, m.store, invalidate_collection_cache(C, c), <<>>)

\* add_document (the update method): admin check, add, cache invalidation.
api_add_document(S, C, caller, req, t) ==
    LET a == add_document(S, req, t)
    IN IF ~is_collection_admin(S, req.collection_id, caller) \/ ~a.ok
       THEN Outcome(FALSE, S, C, <<>>)
       ELSE Outcome(TRUE, a.store, invalidate_collection_cache(C, req.collection_id), <<>>)

\* add_document_and_embed up to its first await (or to its return).
add_document_and_embed(S, C, caller, req, proxy_url, t) ==
    LET c == req.collection_id
        a == add_document(S, req, t)
        chunks == get_document_chunks(a.store, a.id)
    IN IF ~is_collection_admin(S, c, caller) \/ ~a.ok THEN Outcome(FALSE, S, C, <<>>)
       ELSE IF chunks = <<>> THEN FinishAddAndEmbed(a.store, C, c, a.id, <<>>)
       ELSE IF ~validate_embedding_request(ChunkTexts(BatchOf(chunks, 1)), proxy_url)
       THEN FailAddAndEmbed(a.store, C, c, a.id)
       ELSE Outcome(TRUE, a.store, C,
                    <<Suspended("add_document_and_embed", c, a.id, chunks,
                                S.collections[c].settings, proxy_url, 1, <<>>, t)>>)

\* embed_existing_document up to its first await (or to its early return).
embed_existing_document(S, C, caller, c, d, t) ==
    LET chunks == get_document_chunks(S, d)
    IN IF ~is_collection_admin(S, c, caller) THEN Outcome(FALSE, S, C, <<>>)
       ELSE IF ~has_document(S, c, d) THEN Outcome(FALSE, S, C, <<>>)
       ELSE IF S.documents[storage_key(c, d)].is_embedded THEN Outcome(FALSE, S, C, <<>>)
       ELSE IF chunks = <<>> THEN Outcome(FALSE, S, C, <<>>)
       ELSE IF ~validate_embedding_request(ChunkTexts(BatchOf(chunks, 1)),
                                           S.collections[c].settings.proxy_url)
       THEN Outcome(FALSE, S, C, <<>>)
       ELSE Outcome(TRUE, S, C,
                    <<Suspended("embed_existing_document", c, d, chunks,
                                S.collections[c].settings,
                                S.collections[c].settings.proxy_url, 1, <<>>, t)>>)

\* A suspended handler h resumes at time t with the reply to its batch.
Resume(S, C, h, reply, t) ==
    LET batch == BatchOf(h.chunks, h.next)
        vs == BatchVectors(batch, reply, h.settings.embedding_model, t)
        acc == h.acc \o vs
        more == h.next + BATCH_SIZE <= Len(h.chunks)
    IN IF vs = <<>>
       THEN IF h.op = "add_document_and_embed" THEN FailAddAndEmbed(S, C, h.c, h.d)
            ELSE Outcome(FALSE, S, C, <<>>)
       ELSE IF more
       THEN Outcome(TRUE, S, C,
                    <<[h EXCEPT !.next = h.next + BATCH_SIZE, !.acc = acc, !.sent = t]>>)
       ELSE IF h.op = "add_document_and_embed"
       THEN FinishAddAndEmbed(S, C, h.c, h.d, acc)
       ELSE FinishEmbedExisting(S, C, h.c, h.d, acc)

\* ---------------------------------------------------------------- actions
DefaultSettings ==
    [embedding_model |-> "text-embedding-ada-002", proxy_url |-> "https://proxy",
     chunk_size |-> 2, chunk_overlap |-> 1, max_documents |-> <<>>,
     auto_embed |-> TRUE]

SettingsChoices == {DefaultSettings}

VecIds == {generate_id("vec", ChunkId(p), t) : p \in 0..1, t \in Times}

\* The replies of the embedding service: an error, a good embedding, a zero one.
Replies == {<<>>, <<3, 4>>, <<0, 0>>, <<PosInf, 0>>, <<9, 9>>}

\* The S5 scenario has not begun.
NoScenario == [k |-> 0, t0 |-> 0]

Init ==
    /\ collections = EmptyMap
    /\ documents = EmptyMap
    /\ document_chunks = EmptyMap
    /\ document_index = EmptyMap
    /\ vectors = EmptyMap
    /\ vector_index = EmptyMap
    /\ cache = BoundedCache_new(max_memory, max_entries)
    /\ now = 0
    /\ inflight = <<>>
    /\ steps = 0
    /\ scenario = NoScenario
    /\ invalidated = {}
    /\ calls = {}

\* steps counts the calls that changed the state; a call that changes
\* nothing (a rejected one) is a stuttering step.
Budget(changed) ==
    steps' = IF changed THEN steps + 1 ELSE steps

Tick ==
    /\ steps < MaxSteps
    /\ now < MaxTime
    /\ now' = now + 1
    /\ Budget(TRUE)
    /\ UNCHANGED <<storeVars, cache, inflight, scenario, invalidated, calls>>

\* A call that runs to completion on the maps only.
StoreCall(r) ==
    /\ steps < MaxSteps
    /\ Commit(r.store)
    /\ Budget(r.store # Store)
    /\ UNCHANGED <<cache, now, inflight, scenario, invalidated, calls>>

CreateCollection(c, caller, settings) ==
    StoreCall(create_collection(Store, c, caller, settings))

DeleteCollection(c, caller) == StoreCall(delete_collection(Store, c, caller))

DeleteDocument(c, d) == StoreCall(delete_document(Store, c, d))

DeleteVector(vid) == StoreCall(delete_vector(Store, vid))

DeleteDocumentVectors(d) == StoreCall(delete_document_vectors(Store, d))

ClearCollectionVectors(c) == StoreCall(Ok(cleanup_collection_index(Store, c)))

DeleteCollectionDocuments(c) == StoreCall(delete_collection_documents(Store, c))

\* A call that may touch the cache and may suspend.
HandlerCall(o) ==
    /\ steps < MaxSteps
    /\ Len(inflight) + Len(o.waiting) <= MaxInflight
    /\ Commit(o.store)
    /\ cache' = o.cache
    /\ inflight' = inflight \o o.waiting
    /\ Budget(o.store # Store \/ o.cache # cache \/ o.waiting # <<>>)
    /\ UNCHANGED <<now, scenario, invalidated, calls>>

AddDocument(caller, c, title, content) ==
    /\ Len(GetOrDefault(document_index, c)) < MaxIndexLen
    /\ HandlerCall(api_add_document(Store, cache, caller,
           [collection_id |-> c, title |-> title, content |-> content], now))

AddDocumentAndEmbed(caller, c, title, content, proxy_url) ==
    /\ Len(GetOrDefault(document_index, c)) < MaxIndexLen
    /\ HandlerCall(add_document_and_embed(Store, cache, caller,
           [collection_id |-> c, title |-> title, content |-> content], proxy_url, now))

EmbedExistingDocument(caller, c, d) ==
    HandlerCall(embed_existing_document(Store, cache, caller, c, d, now))

\* The reply arrives in a later round than the call.
EmbedReturn(i, reply) ==
    LET o == Resume(Store, cache, inflight[i], reply, now)
    IN /\ steps < MaxSteps
       /\ now > inflight[i].sent
       /\ Commit(o.store)
       /\ cache' = o.cache
       /\ inflight' = IF o.waiting = <<>> THEN RemoveAt(inflight, i)
                      ELSE [inflight EXCEPT ![i] = o.waiting[1]]
       /\ Budget(TRUE)
       /\ UNCHANGED <<now, scenario, invalidated, calls>>

Next ==
    \/ Tick
    \/ \E c \in Colls, p \in Creators, st \in SettingsChoices : CreateCollection(c, p, st)
    \/ \E c \in Colls, p \in Principals : DeleteCollection(c, p)
    \/ \E p \in Principals, c \in Colls, ti \in Titles, co \in Contents :
          AddDocument(p, c, ti, co)
    \/ \E p \in Principals, c \in Colls, ti \in Titles, co \in Contents, u \in ProxyUrls :
          AddDocumentAndEmbed(p, c, ti, co, u)
    \/ \E p \in Principals, c \in Colls, d \in DocIds : EmbedExistingDocument(p, c, d)
    \/ \E i \in 1..Len(inflight), reply \in Replies : EmbedReturn(i, reply)
    \/ \E c \in Colls, d \in DocIds : DeleteDocument(c, d)
    \/ \E vid \in VecIds : DeleteVector(vid)
    \/ \E d \in DocIds : DeleteDocumentVectors(d)
    \/ \E c \in Colls : ClearCollectionVectors(c)
    \/ \E c \in Colls : DeleteCollectionDocuments(c)

Spec == Init /\ [][Next]_vars



\* ------------------------------------------------- the cache on its own
\* The collections the cache is exercised with, and the content that gives
\* a document n chunks under DefaultSettings.
CacheColls == {"c1", "c2", "c3"}

ContentOfChunks(n) == [i \in 1..(IF n = 1 THEN 1 ELSE n + 1) |-> "a"]

\* Collection c created at time t with one embedded document of n chunks
\* (none when n = 0), by the calls that do so in the program.
Populate(S, c, n, t) ==
    LET S1 == create_collection(S, c, "p1", DefaultSettings).store
        a == add_document(S1, [collection_id |-> c, title |-> "t1",
                               content |-> ContentOfChunks(n)], t)
        vs == BatchVectors(get_document_chunks(a.store, a.id), <<3, 4>>,
                           DefaultSettings.embedding_model, t)
        S2 == store_vectors_batch(a.store, vs).store
    IN IF n = 0 THEN S1 ELSE mark_document_embedded(S2, c, a.id).store

EmptyStore ==
    [collections |-> EmptyMap, documents |-> EmptyMap, document_chunks |-> EmptyMap,
     document_index |-> EmptyMap, vectors |-> EmptyMap, vector_index |-> EmptyMap]

CacheInit ==
    /\ \E n1, n2, n3 \in 0..BATCH_SIZE :
          LET S == Populate(Populate(Populate(EmptyStore, "c1", n1, 0), "c2", n2, 1),
                            "c3", n3, 2)
          IN /\ collections = S.collections
             /\ documents = S.documents
             /\ document_chunks = S.document_chunks
             /\ document_index = S.document_index
             /\ vectors = S.vectors
             /\ vector_index = S.vector_index
    /\ cache = BoundedCache_new(max_memory, max_entries)
    /\ now = CacheStart
    /\ inflight = <<>>
    /\ steps = 0
    /\ scenario = NoScenario
    /\ invalidated = {}
    /\ calls = {}

\* S5 followed step by step: c1, c2, c3 cached in turn into an empty cache
\* through get_cached_vectors, then c1 read; k counts the steps done, t0 is
\* the time of the first.  Any other cache operation ends the scenario.
ScenarioAfterRead(c) ==
    IF c = "c1" /\ cache.entries = EmptyMap THEN [k |-> 1, t0 |-> now]
    ELSE IF c = "c2" /\ scenario.k = 1 THEN [scenario EXCEPT !.k = 2]
    ELSE IF c = "c3" /\ scenario.k = 2 THEN [scenario EXCEPT !.k = 3]
    ELSE IF c = "c1" /\ scenario.k = 3 THEN [scenario EXCEPT !.k = 4]
    ELSE NoScenario

CacheCall(C) ==
    /\ cache' = C
    /\ scenario' = NoScenario
    /\ UNCHANGED <<storeVars, now, inflight, steps, invalidated, calls>>

CacheTick ==
    /\ now < CacheMaxTime
    /\ now' = now + 1
    /\ UNCHANGED <<storeVars, cache, inflight, steps, scenario, invalidated, calls>>

\* BoundedCache::get
CacheGet(c) == CacheCall(cache_get(cache, c, now).cache)

\* BoundedCache::insert with the vectors of collection src
CacheInsert(c, src) == CacheCall(cache_insert(cache, c, get_collection_vectors(Store, src), now))

InvalidateCollectionCache(c) == CacheCall(invalidate_collection_cache(cache, c))

ClearCache == CacheCall(cache_clear(cache))

CleanupCache == CacheCall(remove_expired_entries(cache, now))

GetCachedVectors(c) ==
    /\ cache' = get_cached_vectors(cache, Store, c, now).cache
    /\ scenario' = ScenarioAfterRead(c)
    /\ UNCHANGED <<storeVars, now, inflight, steps, invalidated, calls>>

CacheNext ==
    \/ CacheTick
    \/ \E c \in CacheColls : CacheGet(c)
    \/ \E c, src \in CacheColls : CacheInsert(c, src)
    \/ \E c \in CacheColls : InvalidateCollectionCache(c)
    \/ ClearCache
    \/ CleanupCache
    \/ \E c \in CacheColls : GetCachedVectors(c)

CacheSpec == CacheInit /\ [][CacheNext]_vars



\* ------------------------------------ after the deletion of a collection
\* Spec continued from the state that four of its steps lead to: c1 and c2
\* created, a document added to c1, c1 deleted.  The calls are the same.
OrphanStore ==
    LET S1 == create_collection(EmptyStore, "c1", "p1", DefaultSettings).store
        S2 == create_collection(S1, "c2", "p1", DefaultSettings).store
        S3 == add_document(S2, [collection_id |-> "c1", title |-> "t1",
                                content |-> <<"a", "a", "a">>], 0).store
    IN delete_collection(S3, "c1", "p1").store

OrphanInit ==
    /\ collections = OrphanStore.collections
    /\ documents = OrphanStore.documents
    /\ document_chunks = OrphanStore.document_chunks
    /\ document_index = OrphanStore.document_index
    /\ vectors = OrphanStore.vectors
    /\ vector_index = OrphanStore.vector_index
    /\ cache = BoundedCache_new(max_memory, max_entries)
    /\ now = 0
    /\ inflight = <<>>
    /\ steps = 0
    /\ scenario = NoScenario
    /\ invalidated = {}
    /\ calls = {}

OrphanSpec == OrphanInit /\ [][Next]_vars

\* ------------------------------------- the cache in front of the storage
\* Two collections with embedded documents, an empty cache; then reads
\* through the cache, invalidations, and the deletions that change what the
\* storage holds.
ReadInit ==
    /\ \E n1 \in 1..2, n2 \in 0..2 :
          LET S == Populate(Populate(EmptyStore, "c1", n1, 0), "c2", n2, 1)
          IN /\ collections = S.collections
             /\ documents = S.documents
             /\ document_chunks = S.document_chunks
             /\ document_index = S.document_index
             /\ vectors = S.vectors
             /\ vector_index = S.vector_index
    /\ cache = BoundedCache_new(max_memory, max_entries)
    /\ now = MaxTime
    /\ inflight = <<>>
    /\ steps = 0
    /\ scenario = NoScenario
    /\ invalidated = {}
    /\ calls = {}

\* invalidated with the note on collection c replaced by <<c, tag>>.
Noted(c, tag) == {x \in invalidated : x[1] # c} \cup {<<c, tag>>}

\* get_cached_vectors(c); a pending invalidation of c becomes a read one.
ReadCachedVectors(c) ==
    /\ cache' = get_cached_vectors(cache, Store, c, now).cache
    /\ invalidated' = IF <<c, "pending">> \in invalidated THEN Noted(c, "read")
                      ELSE invalidated
    /\ UNCHANGED <<storeVars, now, inflight, steps, scenario, calls>>

\* invalidate_collection_cache(c), noted as pending until c is read again.
InvalidateBeforeRead(c) ==
    /\ cache' = invalidate_collection_cache(cache, c)
    /\ invalidated' = Noted(c, "pending")
    /\ UNCHANGED <<storeVars, now, inflight, steps, scenario, calls>>

ReadNext ==
    \/ \E c \in Colls : ReadCachedVectors(c)
    \/ \E c \in Colls : InvalidateBeforeRead(c)
    \/ \E vid \in VecIds : DeleteVector(vid)
    \/ \E d \in DocIds : DeleteDocumentVectors(d)
    \/ \E c \in Colls : ClearCollectionVectors(c)
    \/ \E c \in Colls, d \in DocIds : DeleteDocument(c, d)

ReadSpec == ReadInit /\ [][ReadNext]_vars

\* ------------------------------------------------ the batch insert on its own
\* store_vectors_batch takes any Vec<Vector>.  The batches here are up to
\* MaxBatch elements for the documents of two collections, each element
\* valid, with an empty embedding, or with a zero norm.
MaxBatch == 3
MaxBatchSteps == 4

BatchDoc(c) == generate_id("doc", "t1", IF c = "c1" THEN 0 ELSE 1)

BatchStore ==
    LET S1 == create_collection(EmptyStore, "c1", "p1", DefaultSettings).store
        S2 == create_collection(S1, "c2", "p1", DefaultSettings).store
        S3 == add_document(S2, [collection_id |-> "c1", title |-> "t1",
                                content |-> <<"a", "a", "a">>], 0).store
    IN add_document(S3, [collection_id |-> "c2", title |-> "t1",
                         content |-> <<"a", "a", "a">>], 1).store

BatchElements ==
    {[id |-> generate_id("vec", ChunkId(p), 1),
      document_id |-> BatchDoc(c),
      chunk_id |-> ChunkId(p),
      embedding |-> shape[1],
      norm |-> shape[2],
      model |-> DefaultSettings.embedding_model,
      created_at |-> 1] :
        p \in 0..1, c \in Colls, shape \in {<<<<3, 4>>, 5>>, <<<<>>, 5>>, <<<<3, 4>>, 0>>}}

Batches == UNION {[1..n -> BatchElements] : n \in 0..MaxBatch}

BatchInit ==
    /\ collections = BatchStore.collections
    /\ documents = BatchStore.documents
    /\ document_chunks = BatchStore.document_chunks
    /\ document_index = BatchStore.document_index
    /\ vectors = BatchStore.vectors
    /\ vector_index = BatchStore.vector_index
    /\ cache = BoundedCache_new(max_memory, max_entries)
    /\ now = 1
    /\ inflight = <<>>
    /\ steps = 0
    /\ scenario = NoScenario
    /\ invalidated = {}
    /\ calls = {}

StoreVectorsBatch(vs) == StoreCall(store_vectors_batch(Store, vs))

BatchNext ==
    \/ \E vs \in Batches : steps < MaxBatchSteps /\ StoreVectorsBatch(vs)
    \/ \E vid \in VecIds : steps < MaxBatchSteps /\ DeleteVector(vid)
    \/ \E c \in Colls : steps < MaxBatchSteps /\ DeleteCollection(c, "p1")
    \/ \E c \in Colls : steps < MaxBatchSteps /\ CreateCollection(c, "p1", DefaultSettings)

BatchSpec == BatchInit /\ [][BatchNext]_vars

\* ------------------------------------------- the management of collections
\* Collections created by either principal, with or without a document cap,
\* their settings, their admins, and the documents added under the cap.
MaxManageSteps == 5

CapChoices == {<<>>, <<1>>, <<2>>}

CappedSettings == {[DefaultSettings EXCEPT !.max_documents = cap] : cap \in CapChoices}

AdminCalls == {"add_collection_admin", "remove_collection_admin", "transfer_genesis_admin"}

ManageInit ==
    /\ collections = EmptyStore.collections
    /\ documents = EmptyStore.documents
    /\ document_chunks = EmptyStore.document_chunks
    /\ document_index = EmptyStore.document_index
    /\ vectors = EmptyStore.vectors
    /\ vector_index = EmptyStore.vector_index
    /\ cache = BoundedCache_new(max_memory, max_entries)
    /\ now = 0
    /\ inflight = <<>>
    /\ steps = 0
    /\ scenario = NoScenario
    /\ invalidated = {}
    /\ calls = {}

\* A call to the collection registry; op is noted with the way it ended.
ManageCall(r, op) ==
    LET note == <<op, IF r.ok THEN "ok" ELSE IF Trapped(r) THEN "trap" ELSE "err">>
    IN /\ steps < MaxManageSteps
       /\ Commit(r.store)
       /\ calls' = IF op \in AdminCalls THEN calls \cup {note} ELSE calls
       /\ Budget(r.store # Store \/ (op \in AdminCalls /\ note \notin calls))
       /\ UNCHANGED <<cache, now, inflight, scenario, invalidated>>

ManageCreateCollection(c, caller, settings) ==
    ManageCall(create_collection(Store, c, caller, settings), "create_collection")

ManageDeleteCollection(c, caller) ==
    ManageCall(delete_collection(Store, c, caller), "delete_collection")

UpdateCollectionSettings(c, settings, caller) ==
    ManageCall(update_collection_settings(Store, c, settings, caller),
               "update_collection_settings")

AddCollectionAdmin(c, new_admin, caller) ==
    ManageCall(add_collection_admin(Store, c, new_admin, caller), "add_collection_admin")

RemoveCollectionAdmin(c, admin_to_remove, caller) ==
    ManageCall(remove_collection_admin(Store, c, admin_to_remove, caller),
               "remove_collection_admin")

TransferGenesisAdmin(c, new_genesis_admin, caller) ==
    ManageCall(transfer_genesis_admin(Store, c, new_genesis_admin, caller),
               "transfer_genesis_admin")

\* The add_document endpoint, on a collection of any length.
ManageAddDocument(caller, c, title, content) ==
    LET o == api_add_document(Store, cache, caller,
                 [collection_id |-> c, title |-> title, content |-> content], now)
    IN /\ steps < MaxManageSteps
       /\ Commit(o.store)
       /\ cache' = o.cache
       /\ Budget(o.store # Store \/ o.cache # cache)
       /\ UNCHANGED <<now, inflight, scenario, invalidated, calls>>

ManageNext ==
    \/ steps < MaxManageSteps /\ Tick
    \/ \E c \in Colls \cup {"admin"}, p \in Principals, st \in CappedSettings :
          ManageCreateCollection(c, p, st)
    \/ \E c \in Colls, p \in Principals : ManageDeleteCollection(c, p)
    \/ \E c \in Colls, p \in Principals, st \in CappedSettings :
          UpdateCollectionSettings(c, st, p)
    \/ \E c \in Colls, p \in Principals, q \in Principals : AddCollectionAdmin(c, q, p)
    \/ \E c \in Colls, p \in Principals, q \in Principals : RemoveCollectionAdmin(c, q, p)
    \/ \E c \in Colls, p \in Principals, q \in Principals : TransferGenesisAdmin(c, q, p)
    \/ \E p \in Principals, c \in Colls, ti \in Titles, co \in Contents :
          ManageAddDocument(p, c, ti, co)
    \/ \E c \in Colls, d \in DocIds : steps < MaxManageSteps /\ DeleteDocument(c, d)

ManageSpec == ManageInit /\ [][ManageNext]_vars

\* ------------------------------------------------------------ the searches
\* A collection c1 with two documents and up to MaxVectors vectors whose
\* embeddings are drawn from SearchEmbeddings, stored by store_vectors_batch,
\* and the search endpoints on it.
MaxVectors == 4
MaxResults == 3

SearchEmbeddings == {<<1, 0>>, <<0 - 1, 0>>, <<0, 3>>, <<0, 0 - 3>>, <<2>>}

Queries == {<<1, 2>>, <<1, 0>>, <<0, 0>>, <<2>>}

MinScores == {<<>>, <<[num |-> 1, densq |-> 4]>>}

Configs ==
    [max_results : 0..MaxResults, use_approximate : BOOLEAN, min_score : MinScores]

SearchDoc(t) == generate_id("doc", "t1", t)

DocumentFilters == {<<>>, <<{SearchDoc(1)}>>}

\* The source documents asked about: the stored ones and one never stored.
SearchSources == DocIds \cup {SearchDoc(MaxTime + 1)}

\* The vectors for the embeddings es: the first split of them belong to
\* the first document, the others to the second.
SearchVectors(es, split) ==
    [i \in 1..Len(es) |->
        [id |-> generate_id("vec", ChunkId(i - 1), 1),
         document_id |-> SearchDoc(IF i <= split THEN 0 ELSE 1),
         chunk_id |-> ChunkId(i - 1),
         embedding |-> es[i],
         norm |-> calculate_norm(es[i]),
         model |-> DefaultSettings.embedding_model,
         created_at |-> 1]]

SearchStore(es, split) ==
    LET S1 == create_collection(EmptyStore, "c1", "p1", DefaultSettings).store
        S2 == add_document(S1, [collection_id |-> "c1", title |-> "t1",
                                content |-> <<"a", "a", "a">>], 0).store
        S3 == add_document(S2, [collection_id |-> "c1", title |-> "t1",
                                content |-> <<"a", "a", "a">>], 1).store
    IN store_vectors_batch(S3, SearchVectors(es, split)).store

SearchInit ==
    /\ \E n \in 1..MaxVectors : \E es \in [1..n -> SearchEmbeddings] : \E split \in {1, n} :
          /\ collections = SearchStore(es, split).collections
          /\ documents = SearchStore(es, split).documents
          /\ document_chunks = SearchStore(es, split).document_chunks
          /\ document_index = SearchStore(es, split).document_index
          /\ vectors = SearchStore(es, split).vectors
          /\ vector_index = SearchStore(es, split).vector_index
    /\ cache = BoundedCache_new(max_memory, max_entries)
    /\ now = 1
    /\ inflight = <<>>
    /\ steps = 0
    /\ scenario = NoScenario
    /\ invalidated = {}
    /\ calls = {}

\* The part of the search endpoint that runs when the embedding of the
\* query text has come back.
Search(query, config) ==
    /\ cache' = cosine_similarity_search(cache, Store, query, "c1", config, now).cache
    /\ UNCHANGED <<storeVars, now, inflight, steps, scenario, invalidated, calls>>

SearchFiltered(query, document_filter, config) ==
    /\ cache' = similarity_search_filtered(cache, Store, query, "c1", document_filter,
                                           config, now).cache
    /\ UNCHANGED <<storeVars, now, inflight, steps, scenario, invalidated, calls>>

\* A query call: what it writes to the cache is discarded.
FindSimilarDocuments(source, config) ==
    /\ find_similar_documents(cache, Store, source, "c1", config, now).ok \in BOOLEAN
    /\ UNCHANGED vars

SearchNext ==
    \/ \E q \in Queries, cfg \in Configs : Search(q, cfg)
    \/ \E q \in Queries, f \in DocumentFilters, cfg \in Configs : SearchFiltered(q, f, cfg)
    \/ \E d \in SearchSources, cfg \in Configs : FindSimilarDocuments(d, cfg)

SearchSpec == SearchInit /\ [][SearchNext]_vars

\* ------------------------------------------------------- bulk embedding
MaxBulkSteps == 7

BulkMaxTime == 3

\* The result that bulk_embed_collection starts from.
EmptyBulkResult == [embedded |-> 0, skipped |-> 0, failed |-> 0, errors |-> <<>>]

\* What a call of bulk_embed_collection leaves behind: the maps, the cache,
\* the handler (<<h>>) when it suspends, and what it returned (<<r>>) when
\* it is over.
BulkOutcome(S, C, waiting, done) ==
    [store |-> S, cache |-> C, waiting |-> waiting, done |-> done]

\* The handler parked at the await of embed_existing_document for one
\* document: that call's own state h, the locals b of the loop, and the
\* documents still to come.
BulkSuspended(h, b, rest) ==
    [op |-> "bulk_embed_collection", c |-> h.c, d |-> h.d, chunks |-> h.chunks,
     settings |-> h.settings, proxy_url |-> h.proxy_url, next |-> h.next,
     acc |-> h.acc, sent |-> h.sent, b |-> b, rest |-> rest]

\* The locals after the match on the result of one document; log keeps, for
\* the properties, what happened to each document in turn.
Counted(b, d, outcome) ==
    [b EXCEPT !.result =
                  IF outcome = "embedded" THEN [@ EXCEPT !.embedded = @ + 1]
                  ELSE IF outcome = "skipped" THEN [@ EXCEPT !.skipped = @ + 1]
                  ELSE [@ EXCEPT !.failed = @ + 1, !.errors = Append(@, d)],
              !.log = Append(@, <<d, outcome>>)]

\* The for loop from the document at the head of docs on, up to the next
\* await or to the return.
RECURSIVE BulkLoop(_, _, _, _, _)
BulkLoop(S, C, b, docs, t) ==
    IF docs = <<>> THEN BulkOutcome(S, C, <<>>, <<b>>)
    ELSE LET document == Head(docs)
             o == embed_existing_document(S, C, b.caller, b.c, document.id, t)
         IN IF document.is_embedded
            THEN BulkLoop(S, C, Counted(b, document.id, "skipped"), Tail(docs), t)
            ELSE IF o.waiting # <<>>
            THEN BulkOutcome(o.store, o.cache,
                             <<BulkSuspended(o.waiting[1], b, Tail(docs))>>, <<>>)
            ELSE BulkLoop(o.store, o.cache,
                          Counted(b, document.id, IF o.ok THEN "embedded" ELSE "failed"),
                          Tail(docs), t)

bulk_embed_collection(S, C, caller, c, t) ==
    LET documents_listed == list_documents(S, c)
        b == [caller |-> caller, c |-> c, admin |-> is_collection_admin(S, c, caller),
              ok |-> is_collection_admin(S, c, caller),
              listed |-> [i \in 1..Len(documents_listed) |-> documents_listed[i].id],
              result |-> EmptyBulkResult, log |-> <<>>]
    IN IF ~is_collection_admin(S, c, caller) THEN BulkOutcome(S, C, <<>>, <<b>>)
       ELSE BulkLoop(S, C, b, documents_listed, t)

\* A handler that returns at the first document whose embedding fails.
BulkResume_until_failure(S, C, h, reply, t) ==
    LET o == Resume(S, C, h, reply, t)
    IN IF o.waiting # <<>> THEN BulkOutcome(o.store, o.cache, o.waiting, <<>>)
       ELSE IF ~o.ok
       THEN BulkOutcome(o.store, o.cache, <<>>, <<Counted(h.b, h.d, "failed")>>)
       ELSE BulkLoop(o.store, o.cache, Counted(h.b, h.d, "embedded"), h.rest, t)

\* The reply to the batch at hand arrives: embed_existing_document goes on,
\* and when it returns the loop does.
BulkResume(S, C, h, reply, t) ==
    LET o == Resume(S, C, h, reply, t)
    IN IF o.waiting # <<>> THEN BulkOutcome(o.store, o.cache, o.waiting, <<>>)
       ELSE BulkLoop(o.store, o.cache,
                     Counted(h.b, h.d, IF o.ok THEN "embedded" ELSE "failed"),
                     h.rest, t)

\* c1 with two documents, each embedded already or not.
BulkStore(embedded) ==
    LET S1 == create_collection(EmptyStore, "c1", "p1", DefaultSettings).store
        S2 == add_document(S1, [collection_id |-> "c1", title |-> "t1",
                                content |-> <<"a", "a", "a">>], 0).store
        S3 == add_document(S2, [collection_id |-> "c1", title |-> "t1",
                                content |-> <<"a", "a", "a">>], 1).store
        S4 == IF 0 \in embedded THEN mark_document_embedded(S3, "c1", SearchDoc(0)).store
              ELSE S3
    IN IF 1 \in embedded THEN mark_document_embedded(S4, "c1", SearchDoc(1)).store ELSE S4

BulkInit ==
    /\ \E embedded \in SUBSET {0, 1} :
          /\ collections = BulkStore(embedded).collections
          /\ documents = BulkStore(embedded).documents
          /\ document_chunks = BulkStore(embedded).document_chunks
          /\ document_index = BulkStore(embedded).document_index
          /\ vectors = BulkStore(embedded).vectors
          /\ vector_index = BulkStore(embedded).vector_index
    /\ cache = BoundedCache_new(max_memory, max_entries)
    /\ now = 1
    /\ inflight = <<>>
    /\ steps = 0
    /\ scenario = NoScenario
    /\ invalidated = {}
    /\ calls = {}

BulkStep(o, waiting) ==
    /\ steps < MaxBulkSteps
    /\ Commit(o.store)
    /\ cache' = o.cache
    /\ inflight' = waiting
    /\ calls' = calls \cup {o.done[i] : i \in 1..Len(o.done)}
    /\ steps' = steps + 1
    /\ UNCHANGED <<now, scenario, invalidated>>

BulkEmbedCollection(caller, c) ==
    LET o == bulk_embed_collection(Store, cache, caller, c, now)
    IN /\ Len(inflight) + Len(o.waiting) <= MaxInflight
       /\ BulkStep(o, inflight \o o.waiting)

BulkReturn(i, reply) ==
    LET o == BulkResume(Store, cache, inflight[i], reply, now)
    IN /\ now > inflight[i].sent
       /\ BulkStep(o, IF o.waiting = <<>> THEN RemoveAt(inflight, i)
                      ELSE [inflight EXCEPT ![i] = o.waiting[1]])

BulkTick ==
    /\ steps < MaxBulkSteps
    /\ now < BulkMaxTime
    /\ now' = now + 1
    /\ steps' = steps + 1
    /\ UNCHANGED <<storeVars, cache, inflight, scenario, invalidated, calls>>

\* Calls of others that run between the awaits.
BulkDeleteDocument(d) ==
    /\ steps < MaxBulkSteps
    /\ Commit(delete_document(Store, "c1", d).store)
    /\ steps' = steps + 1
    /\ UNCHANGED <<cache, now, inflight, scenario, invalidated, calls>>

BulkDeleteCollection(caller) ==
    /\ steps < MaxBulkSteps
    /\ Commit(delete_collection(Store, "c1", caller).store)
    /\ steps' = steps + 1
    /\ UNCHANGED <<cache, now, inflight, scenario, invalidated, calls>>

BulkNext ==
    \/ BulkTick
    \/ \E p \in Principals : BulkEmbedCollection(p, "c1")
    \/ \E i \in 1..Len(inflight), reply \in Replies : BulkReturn(i, reply)
    \/ \E d \in DocIds : BulkDeleteDocument(d)
    \/ \E p \in Principals : BulkDeleteCollection(p)

BulkSpec == BulkInit /\ [][BulkNext]_vars

\* --------------------------------------------- blueband-compute/src/lib.rs
\* f64 on a small scale.  A value is an integer count of units, FractionUnits
\* of them to 1.0.  The finite values are the counts with at most
\* MantissaBits significant bits, up to F64Max in size; the result of an
\* operation is rounded to the nearest of them, ties to the even one, and
\* becomes infinite beyond F64Max.  Three counts out of that range stand for
\* +inf, -inf and NaN.
FractionUnits == 64

MantissaBits == 12

U64Bits == 13

SCALE_FACTOR == 10

OFFSET_VALUE == 10

U64Max == 2 ^ U64Bits - 1

F64Max == 2 ^ (U64Bits + 8)

F64Inf == 4 * F64Max

F64NegInf == 0 - F64Inf

F64NaN == 5 * F64Max

F64IsFinite(v) == v >= 0 - F64Max /\ v <= F64Max

Abs(x) == IF x < 0 THEN 0 - x ELSE x

\* The distance between neighbouring finite values around the count q >= 0.
RECURSIVE UlpOf(_)
UlpOf(q) == IF q < 2 ^ MantissaBits THEN 1 ELSE 2 * UlpOf(q \div 2)

\* num / den >= 0, rounded to a finite value or to infinity.
RoundRatio(num, den) ==
    LET ulp == UlpOf(num \div den)
        lo == (num \div (den * ulp)) * ulp
        hi == lo + ulp
        nearest == IF 2 * num < (lo + hi) * den THEN lo
                   ELSE IF 2 * num > (lo + hi) * den THEN hi
                   ELSE IF (lo \div ulp) % 2 = 0 THEN lo ELSE hi
    IN IF nearest > F64Max THEN F64Inf ELSE nearest

F64Round(n) == IF n < 0 THEN 0 - RoundRatio(0 - n, 1) ELSE RoundRatio(n, 1)

\* a + b and a - b for a finite b, a * k and a / k for a finite k > 0.
F64Add(a, b) == IF F64IsFinite(a) THEN F64Round(a + b) ELSE a

F64Mul(a, k) == IF F64IsFinite(a) THEN F64Round(a * k) ELSE a

F64Div(a, k) ==
    IF ~F64IsFinite(a) THEN a
    ELSE IF a < 0 THEN 0 - RoundRatio(0 - a, k) ELSE RoundRatio(a, k)

\* `u64 as f64`, and `f64 as u64` for a finite value that is not negative:
\* the integer part, capped at the largest u64.
U64AsF64(u) == F64Round(u * FractionUnits)

F64AsU64(v) == Min(v \div FractionUnits, U64Max)

\* (value + OFFSET_VALUE) * SCALE_FACTOR
Scaled(value) == F64Mul(F64Add(value, OFFSET_VALUE * FractionUnits), SCALE_FACTOR)

\* <<>> is the Err case.
scale_value_to_u64(value) ==
    LET scaled == Scaled(value)
    IN IF ~F64IsFinite(scaled) THEN <<>>
       ELSE IF scaled < 0 THEN <<>>
       ELSE IF scaled > U64AsF64(U64Max) THEN <<>>
       ELSE <<F64AsU64(scaled)>>

unscale_u64_to_float(value) ==
    F64Add(F64Div(U64AsF64(value), SCALE_FACTOR), 0 - OFFSET_VALUE * FractionUnits)

\* The f64 values that are handed to the scaling: the finite values from
\* -12.0 to F64Max, that is every count below 2 ^ MantissaBits and the
\* counts m * 2 ^ e above it, and the three values that are not finite.
ScaleInputs ==
    {v \in ((0 - 12 * FractionUnits)..(2 ^ MantissaBits))
              \cup {m * 2 ^ e : m \in (2 ^ (MantissaBits - 1))..(2 ^ MantissaBits),
                                e \in 1..(U64Bits + 9 - MantissaBits)} :
        v <= F64Max /\ F64Round(v) = v}
        \cup {F64Inf, F64NegInf, F64NaN}

\* calls holds the one value at hand and what has been computed from it.
ScaleInit ==
    /\ collections = EmptyMap
    /\ documents = EmptyMap
    /\ document_chunks = EmptyMap
    /\ document_index = EmptyMap
    /\ vectors = EmptyMap
    /\ vector_index = EmptyMap
    /\ cache = BoundedCache_new(max_memory, max_entries)
    /\ now = 0
    /\ inflight = <<>>
    /\ steps = 0
    /\ scenario = NoScenario
    /\ invalidated = {}
    /\ \E value \in ScaleInputs :
          calls = {[op |-> "input", value |-> value, scaled |-> <<>>, unscaled |-> <<>>]}

ScaleValueToU64(r) ==
    /\ r.op = "input"
    /\ calls' = {[r EXCEPT !.op = "scale", !.scaled = scale_value_to_u64(r.value)]}
    /\ UNCHANGED <<storeVars, cache, now, inflight, steps, scenario, invalidated>>

\* The way back for a value that was scaled.
UnscaleU64ToFloat(r) ==
    /\ r.op = "scale" /\ r.scaled # <<>>
    /\ calls' = {[r EXCEPT !.op = "unscale",
                           !.unscaled = <<unscale_u64_to_float(r.scaled[1])>>]}
    /\ UNCHANGED <<storeVars, cache, now, inflight, steps, scenario, invalidated>>

ScaleNext ==
    \/ \E r \in calls : ScaleValueToU64(r)
    \/ \E r \in calls : UnscaleU64ToFloat(r)

ScaleSpec == ScaleInit /\ [][ScaleNext]_vars

\* ------------------------------------------------- collection settings
MaxSettingsSteps == 4

\* chunk_size and chunk_overlap are u32 and proxy_url is a String: any
\* values can be sent.
ChunkChoices == {<<2, 1>>, <<2, 0>>, <<2, 2>>, <<1, 2>>, <<0, 0>>}

AnyProxyUrls == {"https://proxy", "http://proxy"}

AnySettings ==
    {[DefaultSettings EXCEPT !.chunk_size = ch[1], !.chunk_overlap = ch[2],
                             !.proxy_url = u] : ch \in ChunkChoices, u \in AnyProxyUrls}

SettingsContents == {<<"a">>, <<"a", "a", "a">>}

SettingsInit ==
    /\ collections = EmptyMap
    /\ documents = EmptyMap
    /\ document_chunks = EmptyMap
    /\ document_index = EmptyMap
    /\ vectors = EmptyMap
    /\ vector_index = EmptyMap
    /\ cache = BoundedCache_new(max_memory, max_entries)
    /\ now = 0
    /\ inflight = <<>>
    /\ steps = 0
    /\ scenario = NoScenario
    /\ invalidated = {}
    /\ calls = {}

SettingsCall(r, op) ==
    /\ steps < MaxSettingsSteps
    /\ Commit(r.store)
    /\ calls' = calls \cup {<<op, IF r.ok THEN "ok" ELSE IF Trapped(r) THEN "trap" ELSE "err">>}
    /\ steps' = steps + 1
    /\ UNCHANGED <<cache, now, inflight, scenario, invalidated>>

SettingsCreateCollection(c, caller, settings) ==
    SettingsCall(create_collection(Store, c, caller, settings), "create_collection")

SettingsUpdate(c, settings, caller) ==
    SettingsCall(update_collection_settings(Store, c, settings, caller),
                 "update_collection_settings")

\* add_document of lib.rs: the admin check, then the storage call.
SettingsAddDocument(caller, c, title, content) ==
    LET req == [collection_id |-> c, title |-> title, content |-> content]
        o == api_add_document(Store, cache, caller, req, now)
        trapped == is_collection_admin(Store, c, caller)
                      /\ Trapped(add_document(Store, req, now))
    IN /\ steps < MaxSettingsSteps
       /\ Commit(o.store)
       /\ cache' = o.cache
       /\ calls' = calls \cup {<<"add_document",
                                 IF o.ok THEN "ok" ELSE IF trapped THEN "trap" ELSE "err">>}
       /\ steps' = steps + 1
       /\ UNCHANGED <<now, inflight, scenario, invalidated>>

SettingsNext ==
    \/ \E p \in Principals, st \in AnySettings : SettingsCreateCollection("c1", p, st)
    \/ \E p \in Principals, st \in AnySettings : SettingsUpdate("c1", st, p)
    \/ \E p \in Principals, ti \in Titles, co \in SettingsContents :
          SettingsAddDocument(p, "c1", ti, co)

SettingsSpec == SettingsInit /\ [][SettingsNext]_vars

\* ---------------------------------------------------- idempotency keys
\* Strings are sequences of pieces here ("a", "|", "https://", ...), and
\* concatenation of strings is concatenation of the sequences.
IdemModels == {<<"m">>, <<"m", "https://">>}

IdemProxyUrls == {<<"https://", "p">>, <<"https://", "https://", "p">>}

IdemTexts == {<<"a">>, <<"b">>, <<"a", "|", "b">>}

IdemTextLists == {<<t>> : t \in IdemTexts} \cup {<<t, u>> : t, u \in IdemTexts}

IdemRequests == [model : IdemModels, proxy_url : IdemProxyUrls, texts : IdemTextLists]

\* The bytes of the texts as the loop feeds them: each text, then "|".
RECURSIVE TextBytes(_)
TextBytes(texts) ==
    IF texts = <<>> THEN <<>> ELSE Head(texts) \o <<"|">> \o TextBytes(Tail(texts))

\* The bytes that reach the hasher.  SHA-256 is taken as free of
\* collisions: the key is these bytes.
generate_idempotency_key(request) ==
    request.model \o request.proxy_url \o TextBytes(request.texts)

\* calls holds two requests and, once computed, their keys.
IdemInit ==
    /\ collections = EmptyMap
    /\ documents = EmptyMap
    /\ document_chunks = EmptyMap
    /\ document_index = EmptyMap
    /\ vectors = EmptyMap
    /\ vector_index = EmptyMap
    /\ cache = BoundedCache_new(max_memory, max_entries)
    /\ now = 0
    /\ inflight = <<>>
    /\ steps = 0
    /\ scenario = NoScenario
    /\ invalidated = {}
    /\ \E r1, r2 \in IdemRequests :
          calls = {[request |-> r1, key |-> <<>>], [request |-> r2, key |-> <<>>]}

\* The key of one request is computed; time may have passed before.
GenerateIdempotencyKey(x) ==
    /\ x.key = <<>>
    /\ calls' = (calls \ {x})
                   \cup {[x EXCEPT !.key = <<generate_idempotency_key(x.request)>>]}
    /\ UNCHANGED <<storeVars, cache, now, inflight, steps, scenario, invalidated>>

IdemTick ==
    /\ now < MaxTime
    /\ now' = now + 1
    /\ UNCHANGED <<storeVars, cache, inflight, steps, scenario, invalidated, calls>>

IdemNext ==
    \/ IdemTick
    \/ \E x \in calls : GenerateIdempotencyKey(x)

IdemSpec == IdemInit /\ [][IdemNext]_vars

\* ------------------------------------------- blueband-compute: query_text
\* The sibling canister keeps INDEX_CACHE, a map from the text of a storage
\* principal to the vectors fetched from that canister.  Here cache is that
\* map, with the entry's timestamp and hits; inflight holds the query_text
\* calls parked at one of their two awaits.  CACHE_STATS is left out.
MaxQuerySteps == 6
QueryMaxTime == 3
CACHE_TTL_SECS == 2

StoragePrincipals == {"s1", "s2", "", "not-a-principal"}

\* Principal::from_text
ValidPrincipalText(p) == p \in {"s1", "s2"}

QueryTexts == {"q", ""}

QueryReplies == {"ok", "err"}

cache_hit(C, storage_principal, t) ==
    /\ storage_principal \in DOMAIN C
    /\ t - C[storage_principal].timestamp < CACHE_TTL_SECS

\* The read of the entry after the embedding call: cache.get(..).unwrap().
ReadEntry(C, storage_principal) ==
    IF storage_principal \in DOMAIN C
    THEN [trapped |-> FALSE, cache |-> [C EXCEPT ![storage_principal].hits = @ + 1]]
    ELSE [trapped |-> TRUE, cache |-> C]

QueryInit ==
    /\ collections = EmptyMap
    /\ documents = EmptyMap
    /\ document_chunks = EmptyMap
    /\ document_index = EmptyMap
    /\ vectors = EmptyMap
    /\ vector_index = EmptyMap
    /\ cache = EmptyMap
    /\ now = 0
    /\ inflight = <<>>
    /\ steps = 0
    /\ scenario = NoScenario
    /\ invalidated = {}
    /\ calls = {}

QueryStep ==
    /\ steps < MaxQuerySteps
    /\ steps' = steps + 1
    /\ UNCHANGED <<storeVars, scenario, invalidated>>

\* query_text up to its first await, or to an early return.
QueryText(query, storage_principal) ==
    /\ QueryStep
    /\ UNCHANGED <<cache, now>>
    /\ IF query = "" \/ storage_principal = ""
       THEN calls' = calls \cup {<<"query_text", "err">>} /\ UNCHANGED inflight
       ELSE IF cache_hit(cache, storage_principal, now)
       THEN /\ Len(inflight) < MaxInflight
            /\ inflight' = Append(inflight, [storage_principal |-> storage_principal,
                                             at |-> "fetch_embeddings"])
            /\ UNCHANGED calls
       ELSE IF ~ValidPrincipalText(storage_principal)
       THEN calls' = calls \cup {<<"query_text", "err">>} /\ UNCHANGED inflight
       ELSE /\ Len(inflight) < MaxInflight
            /\ inflight' = Append(inflight, [storage_principal |-> storage_principal,
                                             at |-> "getVectors"])
            /\ UNCHANGED calls

\* populate_cache after the call to the storage canister has returned.
PopulateReturn(i, reply) ==
    LET h == inflight[i]
    IN /\ h.at = "getVectors"
       /\ QueryStep
       /\ UNCHANGED now
       /\ IF reply = "ok"
          THEN /\ cache' = MapPut(cache, h.storage_principal, [timestamp |-> now, hits |-> 0])
               /\ inflight' = [inflight EXCEPT ![i].at = "fetch_embeddings"]
               /\ UNCHANGED calls
          ELSE /\ calls' = calls \cup {<<"query_text", "err">>}
               /\ inflight' = RemoveAt(inflight, i)
               /\ UNCHANGED cache

\* query_text after fetch_embeddings has returned.
QueryEmbedReturn(i, reply) ==
    LET h == inflight[i]
        r == ReadEntry(cache, h.storage_principal)
    IN /\ h.at = "fetch_embeddings"
       /\ QueryStep
       /\ UNCHANGED now
       /\ inflight' = RemoveAt(inflight, i)
       /\ IF reply = "err"
          THEN calls' = calls \cup {<<"query_text", "err">>} /\ UNCHANGED cache
          ELSE /\ cache' = r.cache
               /\ calls' = calls \cup {<<"query_text", IF r.trapped THEN "trap" ELSE "ok">>}

invalidate_cache(C, storage_principal) ==
    IF storage_principal = "" THEN C ELSE MapDel(C, storage_principal)

InvalidateCache(storage_principal) ==
    /\ QueryStep
    /\ cache' = invalidate_cache(cache, storage_principal)
    /\ UNCHANGED <<now, inflight, calls>>

QueryTick ==
    /\ now < QueryMaxTime
    /\ now' = now + 1
    /\ UNCHANGED <<storeVars, cache, inflight, steps, scenario, invalidated, calls>>

QueryNext ==
    \/ QueryTick
    \/ \E q \in QueryTexts, p \in StoragePrincipals : QueryText(q, p)
    \/ \E i \in 1..Len(inflight), reply \in QueryReplies : PopulateReturn(i, reply)
    \/ \E i \in 1..Len(inflight), reply \in QueryReplies : QueryEmbedReturn(i, reply)
    \/ \E p \in StoragePrincipals : InvalidateCache(p)

QuerySpec == QueryInit /\ [][QueryNext]_vars

\* ------------------------------------------------------------------ claims
\* The vectors stored for document d.
VectorsOf(d) == {vid \in DOMAIN vectors : vectors[vid].document_id = d}

\* The documents of collection c: those its index lists and those the
\* documents map keeps under c.
DocumentsOf(c) ==
    {d \in DocIds : Contains(GetOrDefault(document_index, c), d)
                    \/ storage_key(c, d) \in DOMAIN documents}

\* C1: after delete_collection(c) succeeds, nothing keyed by c or by a
\* document that belonged to c remains in the documents map, the chunks
\* map, the vectors map, the document index or the vector index.
C1_DeleteCollectionLeavesNoOrphans ==
    [][\A c \in Colls, p \in Principals :
         (require_genesis_admin(Store, c, p) /\ DeleteCollection(c, p)) =>
            /\ c \notin DOMAIN document_index'
            /\ c \notin DOMAIN vector_index'
            /\ \A d \in DocumentsOf(c) :
                 /\ storage_key(c, d) \notin DOMAIN documents'
                 /\ d \notin DOMAIN document_chunks'
                 /\ \A vid \in DOMAIN vectors' : vectors'[vid].document_id # d]_vars

\* C2: after delete_document(c, d) succeeds, the chunks of d, the vectors of
\* d and their ids in the vector index of c are gone and d is no longer in
\* the document index of c.
C2_DeleteDocumentCascades ==
    [][\A c \in Colls, d \in DocIds :
         (delete_document(Store, c, d).ok /\ DeleteDocument(c, d)) =>
            /\ d \notin DOMAIN document_chunks'
            /\ ~Contains(GetOrDefault(document_index', c), d)
            /\ \A vid \in DOMAIN vectors' : vectors'[vid].document_id # d
            /\ \A vid \in VectorsOf(d) :
                 ~Contains(GetOrDefault(vector_index', c), vid)]_vars

\* How often x occurs in the sequence s.
Occurrences(s, x) == Cardinality({i \in 1..Len(s) : s[i] = x})

\* C3: every stored vector is listed exactly once, in the index of exactly
\* one collection, and that collection holds the vector's document.
C3_VectorInExactlyOneIndex ==
    \A vid \in DOMAIN vectors :
        \E c \in DOMAIN vector_index :
            /\ Occurrences(vector_index[c], vid) = 1
            /\ \A c2 \in DOMAIN vector_index \ {c} : ~Contains(vector_index[c2], vid)
            /\ Contains(GetOrDefault(document_index, c), vectors[vid].document_id)

\* C4: between handlers, every vector id an index lists has an entry in the
\* vectors map.
C4_IndexedVectorsExist ==
    \A c \in DOMAIN vector_index :
        \A i \in 1..Len(vector_index[c]) : vector_index[c][i] \in DOMAIN vectors

\* Nothing of document d is left in collection c of the maps S.
NothingLeftOf(S, c, d) ==
    /\ storage_key(c, d) \notin DOMAIN S.documents
    /\ d \notin DOMAIN S.document_chunks
    /\ ~Contains(GetOrDefault(S.document_index, c), d)
    /\ \A vid \in DOMAIN S.vectors : S.vectors[vid].document_id # d

\* C5: when add_document_and_embed returns an error after it added the
\* document (before the embedding call or on its reply), the compensating
\* delete has left the collection with no document, no chunk list and no
\* vector of that document id.
C5_FailedEmbedLeavesNothing ==
    [][/\ \A i \in 1..Len(inflight), reply \in Replies :
            LET h == inflight[i]
                o == Resume(Store, cache, h, reply, now)
            IN (h.op = "add_document_and_embed" /\ EmbedReturn(i, reply)
                /\ ~o.ok /\ o.waiting = <<>>) =>
                  NothingLeftOf(Store', h.c, h.d)
       /\ \A p \in Principals, c \in Colls, ti \in Titles, co \in Contents, u \in ProxyUrls :
            LET req == [collection_id |-> c, title |-> ti, content |-> co]
                a == add_document(Store, req, now)
                o == add_document_and_embed(Store, cache, p, req, u, now)
            IN (is_collection_admin(Store, c, p) /\ a.ok /\ ~o.ok
                /\ AddDocumentAndEmbed(p, c, ti, co, u)) =>
                  NothingLeftOf(Store', c, a.id)]_vars

\* C6: a handler resumed after its document was deleted during the
\* suspension (no collection's document index lists it any more) stores no
\* vector of that document.
C6_ResumeRevalidates ==
    [][\A i \in 1..Len(inflight), reply \in Replies :
         LET h == inflight[i]
         IN (EmbedReturn(i, reply)
             /\ \A c \in DOMAIN document_index : ~Contains(document_index[c], h.d)) =>
               \A vid \in DOMAIN vectors' :
                   vectors'[vid].document_id = h.d =>
                       vid \in DOMAIN vectors /\ vectors'[vid] = vectors[vid]]_vars

\* The step is an insert of collection c into the cache: a direct one, or
\* the one get_cached_vectors makes after a miss on a non-empty collection.
InsertStep(c) ==
    \/ \E src \in CacheColls : CacheInsert(c, src)
    \/ /\ GetCachedVectors(c)
       /\ ~cache_get(cache, c, now).hit
       /\ get_collection_vectors(Store, c) # <<>>

\* The step is a hit on collection c.
HitStep(c) ==
    /\ cache_get(cache, c, now).hit
    /\ CacheGet(c) \/ GetCachedVectors(c)

\* C7: after every cache insert, whatever the size of the inserted vector
\* set, total_memory <= max_memory and the number of entries <= max_entries;
\* stated of the insert get_cached_vectors makes after a miss.
C7_InsertKeepsBounds ==
    [][\A c \in CacheColls :
         (/\ GetCachedVectors(c)
          /\ ~cache_get(cache, c, now).hit
          /\ get_collection_vectors(Store, c) # <<>>) =>
            /\ cache'.total_memory <= cache'.max_memory
            /\ Cardinality(DOMAIN cache'.entries) <= cache'.max_entries]_vars

\* The place of x in the sequence s.
Pos(s, x) == CHOOSE i \in 1..Len(s) : s[i] = x

\* An insert of c evicts in order of least recent use: every entry it
\* evicts although not expired was used no later than every entry it keeps,
\* and stood before it in the order list.
EvictsLeastRecent(c) ==
    LET evicted == {e \in DOMAIN cache.entries \ (DOMAIN cache'.entries \cup {c}) :
                       now - cache.entries[e].timestamp < CACHE_TTL}
        kept == (DOMAIN cache.entries \cap DOMAIN cache'.entries) \ {c}
    IN \A e \in evicted, k \in kept :
          /\ cache.entries[e].last_accessed <= cache.entries[k].last_accessed
          /\ Pos(cache.access_order, e) < Pos(cache.access_order, k)

\* A use puts the entry at the most-recent end and stamps it with the time.
MostRecent(C, c, t) ==
    /\ c \in DOMAIN C.entries
    /\ C.access_order # <<>>
    /\ C.access_order[Len(C.access_order)] = c
    /\ C.entries[c].last_accessed = t

\* The three collections of S5 can be cached, and any two of them fit in
\* the memory limit, so that only max_entries = 2 makes the cache evict.
ScenarioFits ==
    /\ cache.max_entries = 2
    /\ \A c \in CacheColls : get_collection_vectors(Store, c) # <<>>
    /\ \A c, d \in CacheColls :
          c # d => estimate_vectors_memory_size(get_collection_vectors(Store, c))
                   + estimate_vectors_memory_size(get_collection_vectors(Store, d))
                   <= cache.max_memory

\* S5 has just been completed within the time to live.
ScenarioDone == scenario.k = 4 /\ now - scenario.t0 < CACHE_TTL /\ ScenarioFits

\* C8: eviction is LRU.  An insert evicts non-expired entries in order of
\* least recent use, a use being an insert or a hit (both move the entry to
\* the most-recent end); and with max_entries = 2, after caching c1, c2,
\* c3 and then reading c1 through get_cached_vectors, c3 is present, c2 has
\* been evicted and c1 is the most-recent entry.
C8_EvictionIsLRU ==
    [][/\ \A c \in CacheColls :
            /\ InsertStep(c) => EvictsLeastRecent(c) /\ MostRecent(cache', c, now)
            /\ HitStep(c) => MostRecent(cache', c, now)
       /\ ScenarioDone' =>
            /\ "c3" \in DOMAIN cache'.entries
            /\ "c2" \notin DOMAIN cache'.entries
            /\ MostRecent(cache', "c1", now)]_vars

\* S5 done: c2 evicted for c3's sake, c1 read last.
C8_Witness == ScenarioDone /\ cache.access_order = <<"c3", "c1">>

\* C9: after every cache operation the order list holds exactly the keys
\* of the entry map, each once.
C9_OrderListIsKeySet ==
    /\ {cache.access_order[i] : i \in 1..Len(cache.access_order)} = DOMAIN cache.entries
    /\ Len(cache.access_order) = Cardinality(DOMAIN cache.entries)

\* Two entries, the one cached first used last (a hit has moved it to the
\* end of the list), while a third collection could be cached.
C9_Witness ==
    /\ cache.access_order = <<"c2", "c1">>
    /\ cache.entries["c1"].timestamp < cache.entries["c2"].timestamp
    /\ get_collection_vectors(Store, "c3") # <<>>
    /\ now > CacheStart

RECURSIVE LiveMemory(_)
\* The sum of memory_size over the entries with the keys ids.
LiveMemory(ids) ==
    IF ids = {} THEN 0
    ELSE LET c == CHOOSE x \in ids : TRUE
         IN cache.entries[c].memory_size + LiveMemory(ids \ {c})

\* C10: after every cache operation total_memory is the sum of memory_size
\* over the entries in the map.
C10_TotalMemoryIsSum == cache.total_memory = LiveMemory(DOMAIN cache.entries)

\* Two entries, one of them inserted with a vector set bigger than the one
\* its collection has in storage.
C10_Witness ==
    /\ DOMAIN cache.entries = {"c1", "c2"}
    /\ cache.entries["c1"].memory_size
         > estimate_vectors_memory_size(get_collection_vectors(Store, "c1"))
    /\ cache.total_memory > 0

\* The entry of c is there and younger than the time to live.
Live(c) == c \in DOMAIN cache.entries /\ now - cache.entries[c].timestamp < CACHE_TTL

\* C11: get(c) is a hit iff an entry of c exists and is younger than TTL;
\* a get on an expired entry removes it and is a miss; a hit changes only
\* last_accessed and the place in the order list, never the insertion time,
\* so the entry served is always younger than TTL since its insertion.
C11_GetHitsOnlyLiveEntries ==
    [][\A c \in CacheColls :
         LET g == cache_get(cache, c, now)
         IN /\ (CacheGet(c) \/ GetCachedVectors(c)) =>
                 /\ g.hit = Live(c)
                 /\ Live(c) =>
                      /\ g.vectors = cache.entries[c].vectors
                      /\ cache'.entries =
                           [cache.entries EXCEPT ![c].last_accessed = now]
                      /\ cache'.total_memory = cache.total_memory
                 /\ (c \in DOMAIN cache.entries /\ ~Live(c)) =>
                      \/ c \notin DOMAIN cache'.entries
                      \/ /\ GetCachedVectors(c)
                         /\ cache'.entries[c].timestamp = now
            /\ (c \in DOMAIN cache.entries /\ c \in DOMAIN cache'.entries) =>
                 cache'.entries[c].timestamp \in {cache.entries[c].timestamp, now'}]_vars

\* An entry that was hit in a later tick than the one it was inserted in.
C11_Witness ==
    \E c \in DOMAIN cache.entries :
        cache.entries[c].last_accessed > cache.entries[c].timestamp

\* C12: after invalidate_collection_cache(c), the next get_cached_vectors(c)
\* returns exactly what get_collection_vectors(c) returns from the storage
\* at that moment, whatever was cached before.
C12_ReadAfterInvalidateSeesStorage ==
    [][\A c \in Colls :
         (<<c, "pending">> \in invalidated /\ ReadCachedVectors(c)) =>
            /\ get_cached_vectors(cache, Store, c, now).vectors
                 = get_collection_vectors(Store, c)
            /\ c \in DOMAIN cache'.entries =>
                 cache'.entries[c].vectors = get_collection_vectors(Store, c)]_vars

\* c1 lost a vector in the storage, was invalidated and read again: the
\* cache holds fewer vectors than the collection had at first.
C12_Witness ==
    /\ <<"c1", "read">> \in invalidated
    /\ "c1" \in DOMAIN cache.entries
    /\ Len(cache.entries["c1"].vectors) = 1
    /\ Len(get_document_chunks(Store, generate_id("doc", "t1", 0))) = 2

\* The batches a suspended handler can hand to store_vectors_batch when it
\* resumes now with its last reply (the reply comes in a later round than
\* the call), and each of them with every element twice.
PendingBatches ==
    LET single == {inflight[i].acc \o BatchVectors(BatchOf(inflight[i].chunks, inflight[i].next),
                                                  reply, inflight[i].settings.embedding_model, now) :
                      i \in {j \in 1..Len(inflight) : now > inflight[j].sent},
                      reply \in Replies \ {<<>>}}
    IN single \cup {vs \o vs : vs \in single}

\* No index of S lists an id twice.
NoDuplicateIds(S) ==
    \A c \in DOMAIN S.vector_index :
        \A i, j \in 1..Len(S.vector_index[c]) :
            S.vector_index[c][i] = S.vector_index[c][j] => i = j

\* C13: store_vectors_batch is idempotent: a second call with the same
\* batch leaves the vectors map and every index as the first call left
\* them, and no index lists an id twice (also when the batch itself holds
\* an id twice).
C13_BatchStoreIdempotent ==
    \A vs \in PendingBatches :
        LET r1 == store_vectors_batch(Store, vs)
            r2 == store_vectors_batch(r1.store, vs)
        IN r1.ok => /\ r2.ok
                    /\ r2.store = r1.store
                    /\ NoDuplicateIds(r1.store)

\* C14: store_vectors_batch is all-or-nothing.  Whenever it returns an error
\* for a batch - an element with an empty embedding or a norm that is not
\* positive, or an element whose document resolves to no collection - the
\* vectors map and every vector-id index it hands back are the ones it was
\* given, wherever in the batch the failing element stands and however many
\* collections the batch spans.
C14_BatchStoreAllOrNothing ==
    \A vs \in Batches :
        LET r == store_vectors_batch(Store, vs)
        IN ~r.ok => /\ r.store.vectors = vectors
                    /\ r.store.vector_index = vector_index

\* Both collections hold indexed vectors, and a batch of three - a valid
\* element for c1, a valid element for c2 that is not stored yet, then an
\* element with an empty embedding - is refused.
C14_Witness ==
    /\ \A c \in Colls : c \in DOMAIN vector_index /\ vector_index[c] # <<>>
    /\ \E vs \in Batches :
          /\ Len(vs) = 3
          /\ ValidVector(vs[1]) /\ ValidVector(vs[2]) /\ vs[3].embedding = <<>>
          /\ extract_collection_id_from_document_id(Store, vs[1].document_id) = <<"c1">>
          /\ extract_collection_id_from_document_id(Store, vs[2].document_id) = <<"c2">>
          /\ vs[2].id \notin DOMAIN vectors
          /\ ~store_vectors_batch(Store, vs).ok

\* C15: after add_document on collection c succeeds, list_documents(c) holds
\* its earlier entries unchanged and exactly one id that was not there
\* before, get_document(c, id) returns the new metadata, and total_chunks is
\* the length of the chunk list stored under that id - also for two adds
\* with the same title in the same tick.
ListedIds(S, c) == [i \in 1..Len(list_documents(S, c)) |-> list_documents(S, c)[i].id]

C15_AddDocumentAddsOneId ==
    [][\A p \in Principals, c \in Colls, ti \in Titles, co \in Contents :
          LET req == [collection_id |-> c, title |-> ti, content |-> co]
              d == generate_id("doc", ti, now)
          IN (AddDocument(p, c, ti, co) /\ api_add_document(Store, cache, p, req, now).ok)
             => /\ ListedIds(Store, c)' = Append(ListedIds(Store, c), d)
                /\ ~Contains(ListedIds(Store, c), d)
                /\ list_documents(Store, c)' = Append(list_documents(Store, c),
                                                     get_document(Store, c, d)[1]')
                /\ get_document(Store, c, d)' # <<>>
                /\ get_document(Store, c, d)[1]'.title = ti
                /\ get_document(Store, c, d)[1]'.timestamp = now
                /\ get_document(Store, c, d)[1]'.total_chunks
                       = Len(get_document_chunks(Store, d))']_vars

\* C16: add_document on a collection whose document-id index already holds
\* max_documents ids or more fails and leaves the documents map, the chunks
\* map and the document index unchanged; and no step makes an index longer
\* than the cap in force when the step is taken.
C16_CapOnDocuments ==
    [][/\ \A p \in Principals, c \in DOMAIN collections, ti \in Titles, co \in Contents :
             LET cap == collections[c].settings.max_documents
                 req == [collection_id |-> c, title |-> ti, content |-> co]
             IN (/\ ManageAddDocument(p, c, ti, co)
                 /\ cap # <<>>
                 /\ Len(GetOrDefault(document_index, c)) >= cap[1])
                => /\ ~add_document(Store, req, now).ok
                   /\ add_document(Store, req, now).store = Store
                   /\ ~api_add_document(Store, cache, p, req, now).ok
                   /\ documents' = documents
                   /\ document_chunks' = document_chunks
                   /\ document_index' = document_index
       /\ \A c \in DOMAIN collections :
             LET cap == collections[c].settings.max_documents
             IN (/\ cap # <<>>
                 /\ c \in DOMAIN document_index'
                 /\ Len(document_index'[c]) > Len(GetOrDefault(document_index, c)))
                => Len(document_index'[c]) <= cap[1]]_vars

\* A collection whose cap was lowered to 1 after two documents were added:
\* its index is over the cap, and an add by its genesis admin is refused.
C16_Witness ==
    \E c \in DOMAIN collections :
        /\ collections[c].settings.max_documents = <<1>>
        /\ Len(GetOrDefault(document_index, c)) = 2
        /\ ~api_add_document(Store, cache, collections[c].genesis_admin,
                [collection_id |-> c, title |-> "t1", content |-> <<"a", "a", "a">>],
                now).ok

\* C17: in every reachable state the documents map and the document-id
\* indices agree: metadata is stored under c::d exactly when d is in c's
\* index, d is there exactly once, and a chunk list is stored under d.
C17_DocumentsMatchIndex ==
    \A c \in Colls, d \in DocIds :
        /\ storage_key(c, d) \in DOMAIN documents
               <=> (c \in DOMAIN document_index /\ Contains(document_index[c], d))
        /\ (c \in DOMAIN document_index /\ Contains(document_index[c], d))
               => /\ Occurrences(document_index[c], d) = 1
                  /\ d \in DOMAIN document_chunks

\* C18: transfer_genesis_admin(c, p, caller) on an existing collection
\* succeeds exactly when caller is the current genesis admin and p is in
\* the admins; on success the genesis admin is p and the admins are
\* unchanged; on failure the collection is unchanged.
C18_TransferGenesisAdmin ==
    [][\A c \in DOMAIN collections, p \in Principals, caller \in Principals :
          LET r == transfer_genesis_admin(Store, c, p, caller)
          IN TransferGenesisAdmin(c, p, caller)
             => /\ r.ok <=> /\ collections[c].genesis_admin = caller
                            /\ Contains(collections[c].admins, p)
                /\ r.ok => /\ collections'[c].genesis_admin = p
                            /\ collections'[c].admins = collections[c].admins
                /\ ~r.ok => collections'[c] = collections[c]]_vars

\* C19: for every collection, after any sequence of create_collection,
\* add_collection_admin, remove_collection_admin and transfer_genesis_admin
\* calls by any callers, genesis_admin is a member of admins and admins
\* holds no principal twice.
C19_GenesisAmongAdmins ==
    \A c \in DOMAIN collections :
        /\ Contains(collections[c].admins, collections[c].genesis_admin)
        /\ \A q \in Principals : Occurrences(collections[c].admins, q) <= 1

\* Two collections with different genesis admins, after an add and a
\* transfer that passed their checks and a remove that did not.
C19_Witness ==
    /\ {<<"add_collection_admin", "trap">>, <<"transfer_genesis_admin", "trap">>,
         <<"remove_collection_admin", "err">>} \subseteq calls
    /\ DOMAIN collections = Colls
    /\ collections["c1"].genesis_admin # collections["c2"].genesis_admin

\* C20: add_collection_admin, remove_collection_admin and delete_collection
\* called by anyone but the current genesis admin fail and leave the
\* collection, its admins and its indices unchanged; called by the genesis
\* admin with valid arguments they succeed and take effect.
C20_GenesisOnlyOperations ==
    [][\A c \in DOMAIN collections, caller \in Principals, q \in Principals :
          LET genesis == collections[c].genesis_admin = caller
              admins == collections[c].admins
          IN /\ AddCollectionAdmin(c, q, caller)
                => /\ ~genesis => ~add_collection_admin(Store, c, q, caller).ok /\ Store' = Store
                   /\ (genesis /\ ~Contains(admins, q))
                         => /\ add_collection_admin(Store, c, q, caller).ok
                            /\ Contains(collections'[c].admins, q)
             /\ RemoveCollectionAdmin(c, q, caller)
                => /\ ~genesis => ~remove_collection_admin(Store, c, q, caller).ok /\ Store' = Store
                   /\ (genesis /\ Contains(admins, q) /\ q # caller)
                         => /\ remove_collection_admin(Store, c, q, caller).ok
                            /\ ~Contains(collections'[c].admins, q)
             /\ ManageDeleteCollection(c, caller)
                => /\ ~genesis => ~delete_collection(Store, c, caller).ok /\ Store' = Store
                   /\ genesis => /\ delete_collection(Store, c, caller).ok
                                  /\ c \notin DOMAIN collections']_vars

\* C21: create_collection with the id of an existing collection fails and
\* leaves that collection, its document-id index and its vector-id index
\* unchanged; when it succeeds the collection exists with the creator as
\* genesis admin and both its indices exist and are empty.  The call is one
\* step: no other handler runs between its writes.
C21_CreateCollection ==
    [][\A c \in Colls, p \in Creators, st \in SettingsChoices :
          LET r == create_collection(Store, c, p, st)
          IN CreateCollection(c, p, st)
             => /\ c \in DOMAIN collections
                   => /\ ~r.ok
                      /\ collections' = collections
                      /\ document_index' = document_index
                      /\ vector_index' = vector_index
                /\ r.ok
                   => /\ c \in DOMAIN collections'
                      /\ collections'[c].genesis_admin = p
                      /\ c \in DOMAIN document_index' /\ document_index'[c] = <<>>
                      /\ c \in DOMAIN vector_index' /\ vector_index'[c] = <<>>]_vars

\* A collection created again after its deletion: its indices are empty
\* while a document added before the deletion still has its metadata, its
\* chunk list and a stored vector.
C21_Witness ==
    \E c \in DOMAIN collections :
        /\ c \in DOMAIN vector_index /\ vector_index[c] = <<>>
        /\ c \in DOMAIN document_index /\ document_index[c] = <<>>
        /\ \E vid \in DOMAIN vectors :
              LET d == vectors[vid].document_id
              IN /\ storage_key(c, d) \in DOMAIN documents
                 /\ d \in DOMAIN document_chunks
                 /\ \A c2 \in Colls \ {c} : storage_key(c2, d) \notin DOMAIN documents

\* The vectors a search of c1 reads, those of the filter when there is one.
Searched(document_filter) ==
    LET vs == get_cached_vectors(cache, Store, "c1", now).vectors
    IN IF document_filter = <<>> THEN vs
       ELSE SelectSeq(vs, LAMBDA v : v.document_id \in document_filter[1])

\* The scores of the vectors of vs that pass the dimension filter and the
\* min_score filter of a search for query.
PassingScores(query, vs, config) ==
    LET score(v) == [num |-> Dot(query, v.embedding),
                     densq |-> SumSquares(query) * v.norm * v.norm]
        passing == SelectSeq(vs, LAMBDA v :
                       /\ Len(v.embedding) = Len(query)
                       /\ config.min_score = <<>> \/ ~ScoreLess(score(v), config.min_score[1]))
    IN [i \in 1..Len(passing) |-> score(passing[i])]

Above(scores, s) == Cardinality({i \in 1..Len(scores) : ScoreLess(s, scores[i])})

SearchResultFits(query, document_filter, config, matches) ==
    LET scores == [i \in 1..Len(matches) |-> matches[i].score]
        exact == ~config.use_approximate \/ Len(Searched(document_filter)) <= ApproxThreshold
    IN /\ \A i \in 1..(Len(scores) - 1) : ~ScoreLess(scores[i], scores[i + 1])
       /\ Len(matches) <= config.max_results
       /\ (exact /\ matches # <<>>)
             => Above(PassingScores(query, Searched(document_filter), config),
                      scores[Len(scores)])
                = Above(scores, scores[Len(scores)])

\* C22: every result list of cosine_similarity_search and of
\* similarity_search_filtered, on the exact and on the approximate path, has
\* non-increasing scores and at most max_results entries, and on the exact
\* path no vector that passed the dimension and min_score filters and was
\* left out scores higher than the last one returned.
C22_ResultsSortedAndCut ==
    \A q \in Queries, cfg \in Configs :
        /\ LET r == cosine_similarity_search(cache, Store, q, "c1", cfg, now)
           IN r.ok => SearchResultFits(q, <<>>, cfg, r.matches)
        /\ \A f \in DocumentFilters :
              LET r == similarity_search_filtered(cache, Store, q, "c1", f, cfg, now)
              IN r.ok => SearchResultFits(q, f, cfg, r.matches)

\* A search has cached c1, whose four vectors include one of another
\* dimension; the exact search for <<1, 2>> with max_results 2 returns two
\* matches with different scores and leaves a passing vector out, and the
\* approximate search returns matches as well.
C22_Witness ==
    /\ "c1" \in DOMAIN cache.entries
    /\ Len(get_collection_vectors(Store, "c1")) = 4
    /\ \E i \in 1..4 : Len(get_collection_vectors(Store, "c1")[i].embedding) = 1
    /\ LET cfg == [max_results |-> 2, use_approximate |-> FALSE, min_score |-> <<>>]
           r == cosine_similarity_search(cache, Store, <<1, 2>>, "c1", cfg, now)
       IN /\ r.ok /\ Len(r.matches) = 2
          /\ ScoreLess(r.matches[2].score, r.matches[1].score)
          /\ Len(PassingScores(<<1, 2>>, Searched(<<>>), cfg)) = 3
    /\ LET cfg == [max_results |-> 2, use_approximate |-> TRUE, min_score |-> <<>>]
           r == cosine_similarity_search(cache, Store, <<1, 2>>, "c1", cfg, now)
       IN r.ok /\ Len(r.matches) >= 1

\* The vectors of vs that have the dimension of query.
OfDimension(vs, query) == SelectSeq(vs, LAMBDA v : Len(v.embedding) = Len(query))

\* C23: on the approximate path (use_approximate, more vectors of the
\* query's dimension than the threshold, no min_score) a search that
\* succeeds returns exactly max_results matches, and no stored vector
\* appears twice among them.
C23_ApproximateReturnsMaxResults ==
    \A q \in Queries, cfg \in Configs :
        LET vs == get_cached_vectors(cache, Store, "c1", now).vectors
            r == cosine_similarity_search(cache, Store, q, "c1", cfg, now)
        IN (/\ cfg.use_approximate
            /\ cfg.min_score = <<>>
            /\ Len(OfDimension(vs, q)) > ApproxThreshold
            /\ r.ok)
           => /\ Len(r.matches) = cfg.max_results
              /\ \A i, j \in 1..Len(r.matches) :
                    r.matches[i].chunk_id = r.matches[j].chunk_id => i = j

\* The same point: sum / count on both sides.
SameCentroid(c1, c2) ==
    /\ Len(c1.sum) = Len(c2.sum)
    /\ \A d \in 1..Len(c1.sum) : c1.sum[d] * c2.count = c2.sum[d] * c1.count

\* Every Lloyd iteration that simple_kmeans runs from this point on leaves
\* the centroid of each cluster without members as it was.
RECURSIVE EmptyClustersKept(_, _, _, _, _, _)
EmptyClustersKept(vecs, k, dimensions, centroids, assignments, iteration) ==
    IF iteration >= KMEANS_ITERATIONS THEN TRUE
    ELSE LET assigned == AssignToClosest(vecs, centroids)
             updated == update_centroids(vecs, assigned, k, dimensions)
         IN IF assigned = assignments \/ ~updated.ok THEN TRUE
            ELSE /\ \A c \in 1..k :
                       MembersOf(assigned, c) = {}
                          => SameCentroid(updated.centroids[c], centroids[c])
                 /\ EmptyClustersKept(vecs, k, dimensions, updated.centroids,
                                      assigned, iteration + 1)

\* C30: in each Lloyd iteration of the index build over the vectors of a
\* collection, a cluster to which no vector is assigned keeps the centroid
\* it had before the iteration.
C30_EmptyClusterKeepsCentroid ==
    LET vs == get_collection_vectors(Store, "c1")
        k == Min(target_clusters(Len(vs)), Len(vs))
    IN Len(vs) > ApproxThreshold
          => EmptyClustersKept(vs, k, Len(vs[1].embedding),
                               kmeans_plus_plus_init(vs, k, <<>>),
                               [i \in 1..Len(vs) |-> 1], 0)

\* C24: find_similar_documents(source, c, config) never returns a match
\* whose document_id is the source document, and it fails when the source
\* document has no vectors.
C24_SourceNotAmongSimilar ==
    \A d \in SearchSources, cfg \in Configs :
        LET r == find_similar_documents(cache, Store, d, "c1", cfg, now)
        IN /\ r.ok => \A i \in 1..Len(r.matches) : r.matches[i].document_id # d
           /\ get_document_vectors(Store, d) = <<>> => ~r.ok

\* Both documents have vectors; the search around the centroid of the first
\* finds chunks of both, and find_similar_documents returns those of the
\* second only, while it fails for a document without vectors.
C24_Witness ==
    LET cfg == [max_results |-> 3, use_approximate |-> FALSE, min_score |-> <<>>]
        d == SearchDoc(0)
        all == find_similar_documents_keeping_source(cache, Store, d, "c1", cfg, now)
        r == find_similar_documents(cache, Store, d, "c1", cfg, now)
    IN /\ all.ok /\ r.ok
       /\ \E i \in 1..Len(all.matches) : all.matches[i].document_id = d
       /\ r.matches # <<>>
       /\ Len(r.matches) < Len(all.matches)
       /\ \E e \in SearchSources :
             /\ get_document_vectors(Store, e) = <<>>
             /\ ~find_similar_documents(cache, Store, e, "c1", cfg, now).ok

\* What the spec asks of a stored vector.
StoredVectorValid(v) ==
    /\ v.embedding # <<>>
    /\ \A i \in 1..Len(v.embedding) : IsFinite(v.embedding[i])
    /\ v.norm > 0 /\ IsFinite(v.norm)

\* A vector for document d with the given embedding and norm.
VectorFor(d, p, embedding, norm) ==
    [id |-> generate_id("vec", ChunkId(p), 0), document_id |-> d, chunk_id |-> ChunkId(p),
     embedding |-> embedding, norm |-> norm,
     model |-> DefaultSettings.embedding_model, created_at |-> 0]

\* The stores the spec wants rejected: an empty embedding, and a zero, a
\* negative, a NaN and an infinite norm.
BadShapes ==
    {<<<<>>, 5>>, <<<<3, 4>>, 0>>, <<<<3, 4>>, 0 - 5>>, <<<<3, 4>>, NaN>>,
     <<<<3, 4>>, PosInf>>, <<<<3, 4>>, NegInf>>}

\* C25: in every state reachable through the public operations, each vector
\* that get_collection_vectors returns has a non-empty embedding with finite
\* entries and a positive, finite norm; and a store of an empty embedding or
\* of a zero, negative, NaN or infinite norm, alone or after a valid vector
\* in a batch, is rejected and leaves the store as it was.
C25_StoredVectorsValid ==
    /\ \A c \in Colls :
          \A i \in 1..Len(get_collection_vectors(Store, c)) :
              StoredVectorValid(get_collection_vectors(Store, c)[i])
    /\ \A d \in DocIds, shape \in BadShapes :
          LET bad == VectorFor(d, 1, shape[1], shape[2])
              good == VectorFor(d, 0, <<3, 4>>, 5)
          IN /\ store_vectors_batch(Store, <<good, bad>>) = Err(Store)
             /\ store_vectors_batch(Store, <<bad>>) = Err(Store)
             /\ store_vector(Store, bad) = Err(Store)

\* A collection holds a vector that came from the embedding service, and
\* for one of its documents a valid vector alone would be stored while the
\* batch that adds a vector with a NaN norm is turned down.
C25_Witness ==
    \E c \in Colls, d \in DocIds :
        LET good == VectorFor(d, 0, <<3, 4>>, 5)
            bad == VectorFor(d, 1, <<3, 4>>, NaN)
        IN /\ get_collection_vectors(Store, c) # <<>>
           /\ document_exists(Store, c, d)
           /\ store_vectors_batch(Store, <<good>>).ok
           /\ store_vectors_batch(Store, <<good>>).store # Store
           /\ store_vector(Store, good).ok
           /\ ~store_vectors_batch(Store, <<good, bad>>).ok

\* The number of entries of log with the given outcome.
Outcomes(log, outcome) == Cardinality({i \in 1..Len(log) : log[i][2] = outcome})

\* C26: a call of bulk_embed_collection by an admin returns a summary in
\* which embedded + skipped + failed is the number of documents listed when
\* it started and errors has `failed` entries; every listed document was
\* dealt with, in the order of the listing, whatever happened to the ones
\* before it.
C26_BulkEmbedSummary ==
    \A b \in calls :
        b.admin =>
            /\ b.ok
            /\ b.result.embedded + b.result.skipped + b.result.failed = Len(b.listed)
            /\ Len(b.result.errors) = b.result.failed
            /\ [i \in 1..Len(b.log) |-> b.log[i][1]] = b.listed
            /\ b.result.embedded = Outcomes(b.log, "embedded")
            /\ b.result.skipped = Outcomes(b.log, "skipped")
            /\ b.result.failed = Outcomes(b.log, "failed")

\* A call by an admin has returned: its first document failed and its
\* second was embedded after that; another call skipped a document.
C26_Witness ==
    /\ \E b \in calls :
          /\ b.admin /\ Len(b.listed) = 2
          /\ b.log[1][2] = "failed" /\ b.log[2][2] = "embedded"
          /\ b.result.errors = <<b.listed[1]>>
    /\ \E b \in calls : b.admin /\ b.result.skipped > 0

\* C27: for every value that the scaling accepts (value + 10 >= 0 and the
\* scaled value within the 64-bit range) the way there and back differs
\* from the value by less than 1 / SCALE_FACTOR; and the scaling returns an
\* error for a value whose scaled value is negative, not finite, or above
\* the largest u64.
C27_ScaleUnscaleRoundTrip ==
    \A r \in calls :
        /\ (r.op = "unscale" /\ F64IsFinite(r.value))
              => Abs(r.unscaled[1] - r.value) * SCALE_FACTOR < FractionUnits
        /\ (/\ r.op # "input"
            /\ \/ ~F64IsFinite(Scaled(r.value))
               \/ Scaled(r.value) < 0
               \/ Scaled(r.value) > U64Max * FractionUnits)
              => r.scaled = <<>>

\* C28: add_document comes to an end for every collection whose settings
\* create_collection or update_collection_settings let through: no call of
\* it is cut off at the instruction limit because the chunking loop stopped
\* advancing.
C28_AddDocumentTerminates == <<"add_document", "trap">> \notin calls

\* C29: the settings of every stored collection have chunk_overlap below
\* chunk_size and a proxy URL that starts with https://.
C29_StoredSettingsValid ==
    \A c \in DOMAIN collections :
        /\ collections[c].settings.chunk_overlap < collections[c].settings.chunk_size
        /\ StartsWithHttps(collections[c].settings.proxy_url)

\* The number of members of the first n clusters of a selection.
RECURSIVE MembersUpTo(_, _, _)
MembersUpTo(index, selected, n) ==
    IF n = 0 THEN 0
    ELSE Len(index.clusters[selected[n]]) + MembersUpTo(index, selected, n - 1)

\* What the spec asks of the clusters selected for query.
SelectionFits(index, query, candidate_count, selected) ==
    LET score(c) == centroid_similarity(query, norm_squared(query), index.centroids[c])
        scorable == {c \in 1..Len(index.centroids) : score(c) # <<>>}
        chosen == {selected[i] : i \in 1..Len(selected)}
    IN /\ chosen \subseteq scorable
       /\ Cardinality(chosen) = Len(selected)
       /\ \A i \in 1..(Len(selected) - 1) :
             ~ScoreLess(score(selected[i])[1], score(selected[i + 1])[1])
       /\ \A c \in chosen, u \in scorable \ chosen : ~ScoreLess(score(c)[1], score(u)[1])
       /\ \A i \in 1..(Len(selected) - 1) : MembersUpTo(index, selected, i) < candidate_count
       /\ \/ chosen = scorable
          \/ MembersUpTo(index, selected, Len(selected)) >= candidate_count

\* C31: the approximate search takes the clusters in the order of their
\* centroid's similarity to the query, highest first, stops at the first
\* one that brings the number of members to candidate_factor * max_results
\* or more, takes every scorable cluster when there are fewer members, and
\* takes no cluster ranked below one it left out.
C31_ClustersSelectedFromTheTop ==
    LET vs == get_collection_vectors(Store, "c1")
        index == VectorIndex_build(vs, target_clusters(Len(vs)))
    IN (Len(vs) > ApproxThreshold /\ index.ok) =>
          \A q \in Queries, n \in 0..MaxResults :
              norm_squared(q) # 0 =>
                  SelectionFits(index, q, n * CANDIDATE_FACTOR,
                      find_best_clusters(index, q, norm_squared(q), n * CANDIDATE_FACTOR))

\* An index with three scorable clusters for <<1, 2>>: with max_results 1
\* the selection takes two of them and stops, with max_results 3 it takes
\* all three.
C31_Witness ==
    LET vs == get_collection_vectors(Store, "c1")
        index == VectorIndex_build(vs, target_clusters(Len(vs)))
        q == <<1, 2>>
        few == find_best_clusters(index, q, norm_squared(q), 1 * CANDIDATE_FACTOR)
        all == find_best_clusters(index, q, norm_squared(q), 3 * CANDIDATE_FACTOR)
    IN /\ Len(vs) > ApproxThreshold /\ index.ok
       /\ "c1" \in DOMAIN cache.entries
       /\ Len(few) = 2 /\ Len(all) = 3
       /\ MembersUpTo(index, few, 1) < 3

\* C32: two requests that differ in model, proxy URL or list of texts feed
\* different bytes to the hash and get different idempotency keys, and equal
\* requests get equal keys whenever they are computed.
C32_KeyIdentifiesRequest ==
    \A x, y \in calls :
        (x.key # <<>> /\ y.key # <<>>) => (x.key = y.key <=> x.request = y.request)

\* C33: no handler takes a mutable borrow of a process-wide cell while a
\* borrow of the same cell taken earlier in that handler is live: no call to
\* add_collection_admin, remove_collection_admin or transfer_genesis_admin
\* ends in the panic of a refused borrow_mut.
C33_NoBorrowWhileBorrowed ==
    \A op \in {"add_collection_admin", "remove_collection_admin", "transfer_genesis_admin"} :
        <<op, "trap">> \notin calls

\* C34: once an operation that adds or removes vectors of a collection has
\* completed, get_cached_vectors(c) returns the same set of vectors as
\* get_collection_vectors(c): the cache never shows a deleted vector.
C34_CacheFollowsStorage ==
    \A c \in Colls :
        LET cached == get_cached_vectors(cache, Store, c, now).vectors
            stored == get_collection_vectors(Store, c)
        IN {cached[i] : i \in 1..Len(cached)} = {stored[i] : i \in 1..Len(stored)}

\* C35: where query_text reads the cache entry of the storage principal
\* after the embedding call, the entry is there, whatever invalidate_cache
\* calls ran while query_text was suspended: the unwrap never panics.
C35_EntryPresentAfterEmbedding ==
    <<"query_text", "trap">> \notin calls

\* C36: however embed_existing_document, bulk_embed_collection and
\* add_document_and_embed interleave on a document, the storage holds at
\* most one vector for each of its chunks: no document is embedded twice.
C36_OneVectorPerChunk ==
    \A id1, id2 \in DOMAIN vectors :
        (/\ vectors[id1].document_id = vectors[id2].document_id
         /\ vectors[id1].chunk_id = vectors[id2].chunk_id) => id1 = id2

\* C37: vectors of different (document, chunk) pairs never get the same
\* vector id, also within one tick: no step replaces the vector stored under
\* an id by a vector of another document or another chunk.
C37_NoVectorOverwritten ==
    [][\A id \in DOMAIN vectors \cap DOMAIN vectors' :
          /\ vectors'[id].document_id = vectors[id].document_id
          /\ vectors'[id].chunk_id = vectors[id].chunk_id]_vars

\* C38: a document of a collection whose is_embedded flag is set has, for
\* each of its chunks, a vector stored and listed in the vector-id index of its
\* collection, after any sequence of public operations.
C38_EmbeddedMeansVectorsStored ==
    \A k \in DOMAIN documents :
        (/\ documents[k].collection_id \in DOMAIN collections
         /\ has_document(Store, documents[k].collection_id, documents[k].id)
         /\ documents[k].is_embedded) =>
            LET chunks == get_document_chunks(Store, documents[k].id)
                ids == GetOrDefault(vector_index, documents[k].collection_id)
            IN \A i \in 1..Len(chunks) :
                  \E j \in 1..Len(ids) :
                      /\ ids[j] \in DOMAIN vectors
                      /\ vectors[ids[j]].document_id = documents[k].id
                      /\ vectors[ids[j]].chunk_id = chunks[i].id

\* What the storage holds for collection c: its documents, their chunk
\* lists, its two indices and the vectors its vector-id index lists.
CollectionData(S, c) ==
    [docs |-> {S.documents[k] : k \in {x \in DOMAIN S.documents : x[1] = c}},
     chunks |-> {<<k[2], get_document_chunks(S, k[2])>> :
                    k \in {x \in DOMAIN S.documents : x[1] = c}},
     document_index |-> GetOrDefault(S.document_index, c),
     vector_index |-> GetOrDefault(S.vector_index, c),
     vectors |-> {S.vectors[id] : id \in {x \in DOMAIN S.vectors :
                                             Contains(GetOrDefault(S.vector_index, c), x)}}]

\* A public operation is called by caller.  The operations that take no
\* account of their caller are the same step for every caller.
CalledBy(caller) ==
    \/ \E c \in Colls, st \in SettingsChoices : CreateCollection(c, caller, st)
    \/ \E c \in Colls : DeleteCollection(c, caller)
    \/ \E c \in Colls, ti \in Titles, co \in Contents : AddDocument(caller, c, ti, co)
    \/ \E c \in Colls, ti \in Titles, co \in Contents, u \in ProxyUrls :
          AddDocumentAndEmbed(caller, c, ti, co, u)
    \/ \E c \in Colls, d \in DocIds : EmbedExistingDocument(caller, c, d)
    \/ \E c \in Colls, d \in DocIds : DeleteDocument(c, d)
    \/ \E vid \in VecIds : DeleteVector(vid)
    \/ \E d \in DocIds : DeleteDocumentVectors(d)
    \/ \E c \in Colls : ClearCollectionVectors(c)
    \/ \E c \in Colls : DeleteCollectionDocuments(c)

\* C39: a public operation called by a principal who is not an admin of
\* collection c leaves c's documents, chunk lists, vectors and indices as
\* they were.
C39_NonAdminChangesNothing ==
    [][\A c \in DOMAIN collections, caller \in Principals :
          (~is_collection_admin(Store, c, caller) /\ CalledBy(caller))
             => CollectionData(Store, c)' = CollectionData(Store, c)]_vars

====
